---- MODULE Spec2Model ----
(***************************************************************************)
(* aws-sso-navigator: profile loading, hierarchical / unified selection,   *)
(* the recency ledger and the post-selection actions.                      *)
(*                                                                         *)
(* Conventions.  A Rust String is a sequence of one-character strings.     *)
(* Option<T> is a sequence of length <= 1: None == <<>>, Some(v) == <<v>>. *)
(* A HashMap<String,u64> is a function from a finite set of names.         *)
(***************************************************************************)
EXTENDS Integers, Sequences, FiniteSets, TLC

VARIABLES
    pc,              \* position of the run (which blocking call it waits in)
    config,          \* ~/.aws/config: the sequence of its sections
    settingsFile,    \* ~/.config/aws-sso-navigator/config.toml
    ledger,          \* ~/.config/aws-sso-navigator/recent.toml (name -> timestamp)
    profiles,        \* main: `profiles`
    chosen_client,   \* main: `chosen_client`
    chosen_account,  \* main: `chosen_account`
    chosen_role,     \* main: `chosen_role`
    set_default,     \* main: `set_default`
    max_recent,      \* settings.max_recent_profiles.unwrap_or(100)
    mode,            \* "unified" / "cascading" (main: `unified_mode`), "" before
    offered,         \* options handed to the skim_pick call in progress
    resolved,        \* Option<Profile>: the profile found by the final lookup
    outcome,         \* how the run ended ("" while running)
    exitCode,        \* process exit status (-1 while running)
    printed,         \* profile names written to stdout by list mode
    preset,          \* history: the three slots right after the merge
    picks,           \* history: every skim_pick call with its result
    calls,           \* history: external effects in order
    ledger0,         \* history: the ledger file as the run found it
    recent_mem,      \* save_recent_profile: `recent.profiles` as serialised
    lastRecord,      \* history: arguments and clock of the last record call
    pname,           \* parse input: a profile name
    parsed,          \* parse output: Option<Profile>
    cli,             \* history: Option<Args>, what Args::parse() returned
    reads,           \* history: the files read, in order
    opts,            \* the options of the primary action (console,
                     \* force_reauth, check_session, browser)
    app,             \* tui_tree: the TreeApp (<<>> before TreeApp::new)
    key,             \* history: the last key event tui_tree_select read
    url,             \* normalize_sso_start_url: its argument
    normalized,      \* normalize_sso_start_url: successive results
    written,         \* Option: what a call wrote to ~/.aws/config
    fcall            \* history: the call that writes ~/.aws/config, with its
                     \* arguments and the file as it found it

vars == << pc, config, settingsFile, ledger, profiles, chosen_client,
           chosen_account, chosen_role, set_default, max_recent, mode,
           offered, resolved, outcome, exitCode, printed, preset, picks,
           calls, ledger0, recent_mem, lastRecord, pname, parsed, cli, reads, opts,
           app, key, url, normalized, written, fcall >>

-----------------------------------------------------------------------------
(* Bounds of the model *)

MaxLines == 2        \* profile sections in the config of a run
MaxTime == 3         \* clock values 1..MaxTime
MaxCap == 2          \* max_entries of a record call, 0..MaxCap
MaxNameLen == 7      \* characters of a parsed profile name
MaxSections == 3     \* sections of a loaded configuration
MaxProfiles == 3     \* profiles of an indexed profile sequence

(* Program constant: settings.max_recent_profiles.unwrap_or(100) *)
DefaultMaxRecent == 100

-----------------------------------------------------------------------------
(* Option *)

None == <<>>
Some(v) == <<v>>
(* mutant: the second operand wins when both are present *)
OrElse_SecondFirst(a, b) == IF b # None THEN b ELSE a

(* Option::or *)
OrElse(a, b) == IF a # None THEN a ELSE b
UnwrapOr(o, d) == IF o # None THEN o[1] ELSE d

(* Strings: byte order of the characters in use *)
Alphabet == << " ", "-", "a", "b", "d", "p", "r", "w", "|" >>
Ord(c) == CHOOSE i \in 1..Len(Alphabet) : Alphabet[i] = c

RECURSIVE StrLess(_, _)
StrLess(s, t) ==
    IF s = <<>> THEN t # <<>>
    ELSE IF t = <<>> THEN FALSE
    ELSE IF s[1] = t[1] THEN StrLess(Tail(s), Tail(t))
    ELSE Ord(s[1]) < Ord(t[1])

(* str::split(sep): the pieces between separators, empty pieces kept *)
RECURSIVE Split(_, _)
Split(s, sep) ==
    IF \A i \in 1..Len(s) : s[i] # sep THEN << s >>
    ELSE LET i == CHOOSE k \in 1..Len(s) :
                      s[k] = sep /\ \A j \in 1..(k - 1) : s[j] # sep
         IN << SubSeq(s, 1, i - 1) >> \o Split(SubSeq(s, i + 1, Len(s)), sep)

(* mutant: the parts are concatenated without the separator *)
RECURSIVE Join_NoSeparator(_, _)
Join_NoSeparator(parts, sep) ==
    IF parts = <<>> THEN <<>>
    ELSE parts[1] \o Join_NoSeparator(Tail(parts), sep)

(* [&str]::join(sep) *)
RECURSIVE Join(_, _)
Join(parts, sep) ==
    IF parts = <<>> THEN <<>>
    ELSE IF Len(parts) = 1 THEN parts[1]
    ELSE parts[1] \o << sep >> \o Join(Tail(parts), sep)

(* mutant: an element already present is inserted again *)
RECURSIVE BTreeInsert_NoDedup(_, _)
BTreeInsert_NoDedup(sorted, x) ==
    IF sorted = <<>> THEN << x >>
    ELSE IF StrLess(sorted[1], x)
    THEN << sorted[1] >> \o BTreeInsert_NoDedup(Tail(sorted), x)
    ELSE << x >> \o sorted

(* BTreeSet<String>: insertion keeps the elements strictly ascending *)
RECURSIVE BTreeInsert(_, _)
BTreeInsert(sorted, x) ==
    IF sorted = <<>> THEN << x >>
    ELSE IF x = sorted[1] THEN sorted
    ELSE IF StrLess(x, sorted[1]) THEN << x >> \o sorted
    ELSE << sorted[1] >> \o BTreeInsert(Tail(sorted), x)

(* .collect::<BTreeSet<_>>().into_iter().collect::<Vec<_>>() *)
RECURSIVE BTreeCollect(_)
BTreeCollect(values) ==
    IF values = <<>> THEN <<>>
    ELSE BTreeInsert(BTreeCollect(SubSeq(values, 1, Len(values) - 1)),
                     values[Len(values)])

(* slice::sort_by(|a, b| b.key.cmp(a.key)) on << key, item >> pairs: the
   sort is stable, so an element goes behind every element already placed
   whose key is not smaller *)
RECURSIVE InsertDesc(_, _)
InsertDesc(sorted, e) ==
    IF sorted = <<>> THEN << e >>
    ELSE IF sorted[1][1] >= e[1] THEN << sorted[1] >> \o InsertDesc(Tail(sorted), e)
    ELSE << e >> \o sorted

RECURSIVE SortDesc(_)
SortDesc(pairs) ==
    IF pairs = <<>> THEN <<>>
    ELSE InsertDesc(SortDesc(SubSeq(pairs, 1, Len(pairs) - 1)), pairs[Len(pairs)])

Take(seq, n) == SubSeq(seq, 1, IF n < Len(seq) THEN n ELSE Len(seq))

Range(seq) == { seq[i] : i \in 1..Len(seq) }

RECURSIVE SelectSeqIdx(_, _)
SelectSeqIdx(seq, keep) ==
    IF seq = <<>> THEN <<>>
    ELSE SelectSeqIdx(SubSeq(seq, 1, Len(seq) - 1), keep)
         \o (IF Len(seq) \in keep THEN << seq[Len(seq)] >> ELSE <<>>)

(* every sequence of length <= n over S *)
SeqsUpTo(S, n) == UNION { [1..k -> S] : k \in 0..n }

(* every ordering of a finite set, as a sequence without repetition *)
Orderings(S) ==
    { f \in [1..Cardinality(S) -> S] : \A i, j \in 1..Cardinality(S) : f[i] = f[j] => i = j }

-----------------------------------------------------------------------------
(* Profiles *)

(* the naming rule shared by main.rs load_profiles and profile.rs
   parse_profile: split on '-', at least three parts *)
SplitParts(name) == Split(name, "-")

ClientOf(parts) == parts[1]
AccountOf(parts) == parts[2]

(* mutant: only the third component is taken as the role *)
RoleOf_ThirdOnly(parts) == parts[3]

RoleOf(parts) == Join(SubSeq(parts, 3, Len(parts)), "-")

MinParts == 3

MakeProfile(name, parts) ==
    [ client |-> ClientOf(parts), account |-> AccountOf(parts),
      role |-> RoleOf(parts), name |-> name ]

(* main.rs: one line of the config file against ^\[profile (.+)\] *)
main_parse_line(section) ==
    IF section.kind = "profile" /\ Len(section.id) >= 1
    THEN LET parts == SplitParts(section.id)
         IN IF Len(parts) >= MinParts THEN Some(MakeProfile(section.id, parts)) ELSE None
    ELSE None

RECURSIVE main_load_profiles(_)
main_load_profiles(cfg) ==
    IF cfg = <<>> THEN <<>>
    ELSE main_load_profiles(SubSeq(cfg, 1, Len(cfg) - 1))
         \o main_parse_line(cfg[Len(cfg)])

-----------------------------------------------------------------------------
(* Candidate sets of the step-by-step pickers *)

RECURSIVE MapField(_, _)
MapField(ps, f) ==
    IF ps = <<>> THEN <<>>
    ELSE MapField(SubSeq(ps, 1, Len(ps) - 1), f) \o << ps[Len(ps)][f] >>

ClientFilter(p, client) == p.client = client
AccountFilter(p, client, account) == p.client = client /\ p.account = account

uniqueClients(ps) == BTreeCollect(MapField(ps, "client"))

(* mutant: the accounts are not filtered by the client *)
uniqueAccounts_Unfiltered(ps, client) == BTreeCollect(MapField(ps, "account"))

uniqueAccounts(ps, client) ==
    BTreeCollect(MapField(
        SelectSeqIdx(ps, { i \in 1..Len(ps) : ClientFilter(ps[i], client) }),
        "account"))

(* mutant: the roles are filtered by the client only *)
uniqueRoles_ClientOnly(ps, client, account) ==
    BTreeCollect(MapField(
        SelectSeqIdx(ps, { i \in 1..Len(ps) : ClientFilter(ps[i], client) }),
        "role"))

uniqueRoles(ps, client, account) ==
    BTreeCollect(MapField(
        SelectSeqIdx(ps, { i \in 1..Len(ps) : AccountFilter(ps[i], client, account) }),
        "role"))

(* mutant: the lookup does not compare the role *)
Matches_IgnoresRole(p, client, account, role) ==
    p.client = client /\ p.account = account

(* profiles.iter().find(|p| p.client == client && p.account == account
   && p.role == role): the first match in sequence order *)
Matches(p, client, account, role) ==
    p.client = client /\ p.account = account /\ p.role = role

(* mutant: the lookup takes the first profile whatever its fields *)
FindProfile_AnyFirst(ps, client, account, role) ==
    IF ps = <<>> THEN None ELSE Some(ps[1])

FindProfile(ps, client, account, role) ==
    LET hits == { i \in 1..Len(ps) : Matches(ps[i], client, account, role) }
    IN IF hits = {} THEN None
       ELSE Some(ps[CHOOSE i \in hits : \A j \in hits : i <= j])

-----------------------------------------------------------------------------
(* Settings and command-line arguments *)

(* impl Default for Settings *)
DefaultSettings ==
    [ default_client |-> None, default_account |-> None, default_role |-> None,
      unified_mode |-> Some(FALSE), set_default |-> Some(FALSE),
      list |-> Some(FALSE), recent |-> Some(FALSE),
      max_recent_profiles |-> Some(DefaultMaxRecent) ]

EmptySettings ==
    [ default_client |-> None, default_account |-> None, default_role |-> None,
      unified_mode |-> None, set_default |-> None, list |-> None,
      recent |-> None, max_recent_profiles |-> None ]

(* the settings files a run may find: none; one that does not parse (its
   content is what a lenient reader would have taken from it); three that
   parse *)
SettingsFiles ==
    { [ exists |-> FALSE, parses |-> FALSE, content |-> EmptySettings ],
      [ exists |-> TRUE, parses |-> FALSE,
        content |-> [ EmptySettings EXCEPT !.default_client = Some(<< "b" >>),
                                           !.set_default = Some(TRUE) ] ],
      [ exists |-> TRUE, parses |-> TRUE,
        content |-> [ EmptySettings EXCEPT !.default_client = Some(<< "a" >>),
                                           !.default_account = Some(<< "d" >>),
                                           !.set_default = Some(TRUE),
                                           !.max_recent_profiles = Some(1) ] ],
      [ exists |-> TRUE, parses |-> TRUE,
        content |-> [ EmptySettings EXCEPT !.default_role = Some(<< "r" >>),
                                           !.recent = Some(TRUE),
                                           !.set_default = Some(FALSE),
                                           !.max_recent_profiles = Some(0) ] ],
      [ exists |-> TRUE, parses |-> TRUE,
        content |-> [ EmptySettings EXCEPT !.unified_mode = Some(TRUE),
                                           !.list = Some(TRUE) ] ] }

(* mutant: a file that does not parse is used for what could be read of it *)
load_settings_PartialParse(file) ==
    IF file.exists THEN file.content ELSE DefaultSettings

load_settings(file) ==
    IF file.exists
    THEN IF file.parses THEN file.content ELSE DefaultSettings
    ELSE DefaultSettings

ClientValues == { << "a" >>, << "b" >> }
AccountValues == { << "d" >>, << "p" >> }
RoleValues == { << "r" >>, << "w" >> }

OptionOf(S) == { None } \cup { Some(v) : v \in S }

ArgsSet ==
    [ client : OptionOf(ClientValues), account : OptionOf(AccountValues),
      role : OptionOf(RoleValues), unified : BOOLEAN, set_default : BOOLEAN,
      list : BOOLEAN, recent : BOOLEAN ]

(* HashMap<String, u64> *)
EmptyMap == [ n \in {} |-> 0 ]

(* load_recent_profiles: the mapping of recent.toml; a file that is absent,
   unreadable or does not parse gives RecentProfiles::default() *)
load_recent_profiles(file) ==
    IF file.readable THEN file.profiles ELSE EmptyMap

(* profiles.sort_by(...) of the `recent` branch: descending last-used time,
   0 for a name the ledger does not hold *)
(* mutant: a name the ledger does not hold counts as the most recent *)
RecentTime_AbsentNewest(p, recentMap) ==
    IF p.name \in DOMAIN recentMap THEN recentMap[p.name] ELSE MaxTime + 1

RecentTime(p, recentMap) ==
    IF p.name \in DOMAIN recentMap THEN recentMap[p.name] ELSE 0

SortByRecent(ps, recentMap) ==
    LET keyed == [ i \in 1..Len(ps) |-> << RecentTime(ps[i], recentMap), ps[i] >> ]
        sorted == SortDesc(keyed)
    IN [ i \in 1..Len(sorted) |-> sorted[i][2] ]

-----------------------------------------------------------------------------
(* Recency ledger: save_recent_profile *)

(* mutant: a name the ledger already holds keeps its old timestamp *)
RecordInsert_KeepsOld(m, name, ts) ==
    [ n \in (DOMAIN m) \cup { name } |-> IF n \in DOMAIN m THEN m[n] ELSE ts ]

RecordInsert(m, name, ts) ==
    [ n \in (DOMAIN m) \cup { name } |-> IF n = name THEN ts ELSE m[n] ]

(* mutant: the entries are not sorted before the first max_entries are kept *)
Prune_Unsorted(m, max_entries, order) ==
    IF Cardinality(DOMAIN m) > max_entries
    THEN LET kept == Take(order, max_entries)
         IN [ n \in Range(kept) |-> m[n] ]
    ELSE m

(* the pruning branch; `order` is the iteration order of the HashMap *)
Prune(m, max_entries, order) ==
    IF Cardinality(DOMAIN m) > max_entries
    THEN LET entries == [ i \in 1..Len(order) |-> << m[order[i]], order[i] >> ]
             kept == Take(SortDesc(entries), max_entries)
         IN [ n \in { kept[i][2] : i \in 1..Len(kept) } |-> m[n] ]
    ELSE m

(* the orders in which recent.profiles.iter() may yield the entries; the
   map is iterated only in the pruning branch *)
IterationOrders(m, max_entries) ==
    IF Cardinality(DOMAIN m) > max_entries THEN Orderings(DOMAIN m) ELSE { <<>> }

(* what save_recent_profile serialises *)
RecordResult(file, name, max_entries, ts, order) ==
    Prune(RecordInsert(load_recent_profiles(file), name, ts), max_entries, order)

(* fs::write(..).ok(): a failed write leaves the file as it was *)
WriteRecent(file, m, writeOk) ==
    IF writeOk THEN [ readable |-> TRUE, profiles |-> m ] ELSE file

-----------------------------------------------------------------------------
(* The picker *)

(* what Skim::run_with can hand back for a list of options *)
PickerOutputs(options) ==
    { [ ran |-> FALSE, is_abort |-> FALSE, selected_items |-> <<>> ] }
    \cup { [ ran |-> TRUE, is_abort |-> b, selected_items |-> <<>> ] : b \in BOOLEAN }
    \cup { [ ran |-> TRUE, is_abort |-> b, selected_items |-> << x >> ] :
             b \in BOOLEAN, x \in Range(options) }

skim_pick(output) ==
    IF ~output.ran THEN None
    ELSE IF output.is_abort THEN None
    ELSE IF output.selected_items = <<>> THEN None
    ELSE Some(output.selected_items[1])

(* str::trim *)
RECURSIVE TrimStart(_)
TrimStart(s) == IF s # <<>> /\ s[1] = " " THEN TrimStart(Tail(s)) ELSE s

RECURSIVE TrimEnd(_)
TrimEnd(s) ==
    IF s # <<>> /\ s[Len(s)] = " " THEN TrimEnd(SubSeq(s, 1, Len(s) - 1)) ELSE s

Trim(s) == TrimEnd(TrimStart(s))

(* format!("{} | {} | {} | {}", p.client, p.account, p.role, p.name) *)
UnifiedRow(p) ==
    p.client \o << " ", "|", " " >> \o p.account \o << " ", "|", " " >>
    \o p.role \o << " ", "|", " " >> \o p.name

UnifiedRows(ps) == [ i \in 1..Len(ps) |-> UnifiedRow(ps[i]) ]

(* choice.split('|').map(|s| s.trim()).collect() *)
UnifiedParts(choice) ==
    LET raw == Split(choice, "|") IN [ i \in 1..Len(raw) |-> Trim(raw[i]) ]

-----------------------------------------------------------------------------
(* main: where the run goes next *)

Running(at, options, found) ==
    [ pc |-> at, offered |-> options, resolved |-> found, outcome |-> "",
      exitCode |-> -1 ]

Exit(how, code) ==
    [ pc |-> "done", offered |-> <<>>, resolved |-> None, outcome |-> how,
      exitCode |-> code ]

(* "Resolve final profile", up to the call of `aws sso login` *)
Resolve(ps, cc, ca, cr) ==
    IF cc # None /\ ca # None /\ cr # None
    THEN LET found == FindProfile(ps, cc[1], ca[1], cr[1])
         IN IF found # None THEN Running("login", <<>>, found)
            ELSE Exit("NoMatchingProfile", 1)
    ELSE Exit("SelectionIncomplete", 1)

(* the guards of the three step-by-step blocks *)
NeedsClient(cc, ca, cr) == cc = None
NeedsAccount(cc, ca, cr) == cc # None /\ ca = None

(* mutant: the role block does not test that the role is unset *)
NeedsRole_IgnoresPreset(cc, ca, cr) == cc # None /\ ca # None

NeedsRole(cc, ca, cr) == cc # None /\ ca # None /\ cr = None

(* mutant: the account picker offers only the accounts that have a profile
   with the role already chosen *)
Cascade_FiltersByLaterSlot(step, ps, cc, ca, cr) ==
    IF step <= 1 /\ NeedsClient(cc, ca, cr)
    THEN Running("pick_client", uniqueClients(ps), None)
    ELSE IF step <= 2 /\ NeedsAccount(cc, ca, cr)
    THEN Running("pick_account",
                 IF cr = None THEN uniqueAccounts(ps, cc[1])
                 ELSE uniqueAccounts(SelectSeq(ps, LAMBDA p : p.role = cr[1]), cc[1]),
                 None)
    ELSE IF step <= 3 /\ NeedsRole(cc, ca, cr)
    THEN Running("pick_role", uniqueRoles(ps, cc[1], ca[1]), None)
    ELSE Resolve(ps, cc, ca, cr)

(* step-by-step mode from block `step` (1 client, 2 account, 3 role) on,
   up to the next picker call or the resolution *)
Cascade(step, ps, cc, ca, cr) ==
    IF step <= 1 /\ NeedsClient(cc, ca, cr)
    THEN Running("pick_client", uniqueClients(ps), None)
    ELSE IF step <= 2 /\ NeedsAccount(cc, ca, cr)
    THEN Running("pick_account", uniqueAccounts(ps, cc[1]), None)
    ELSE IF step <= 3 /\ NeedsRole(cc, ca, cr)
    THEN Running("pick_role", uniqueRoles(ps, cc[1], ca[1]), None)
    ELSE Resolve(ps, cc, ca, cr)

(* mutant: the `None => return` arm falls through to the resolution *)
OnPickNone_FallsThrough(ps, cc, ca, cr) == Resolve(ps, cc, ca, cr)

(* `None => return` of every picker call *)
OnPickNone(ps, cc, ca, cr) == Exit("SelectionCancelled", 0)

(* the exit status of a Rust process that panics *)
PanicExit == 101

(* mutant: a failed login does not exit *)
OnLogin_NoExitOnFailure(status) ==
    IF status = "spawn_error" THEN Exit("ExternalActionFailure", PanicExit)
    ELSE Running("save_recent", <<>>, None)

(* `if !status.success()` after `aws sso login`; a command that cannot be
   spawned panics in expect() *)
OnLogin(status) ==
    IF status = "spawn_error" THEN Exit("ExternalActionFailure", PanicExit)
    ELSE IF status = "failure" THEN Exit("ExternalActionFailure", 1)
    ELSE Running("save_recent", <<>>, None)

(* `if set_default { if let Err(e) = set_default_profile(..) { eprintln!(
   "Warning: ..") } }` and the end of main *)
AfterRecord(sd) ==
    IF sd THEN Running("set_default", <<>>, None) ELSE Exit("Success", 0)

OnSetDefault(result) == Exit("Success", 0)

-----------------------------------------------------------------------------
(* The run of main *)

(* no primary action is being dispatched *)
NoOpts == [ console |-> FALSE, force_reauth |-> FALSE, check_session |-> FALSE,
            browser |-> None ]

N_adr == << "a", "-", "d", "-", "r" >>
N_apw == << "a", "-", "p", "-", "w" >>
N_bdrw == << "b", "-", "d", "-", "r", "-", "w" >>
N_ad == << "a", "-", "d" >>

NamePool == { N_adr, N_apw, N_bdrw }

ProfileSection(name) == [ kind |-> "profile", id |-> name, props |-> EmptyMap ]

(* every configuration of up to MaxLines qualifying sections, and one whose
   only section has a two-part name *)
RunConfigs ==
    SeqsUpTo({ ProfileSection(n) : n \in NamePool }, MaxLines)
    \cup { << ProfileSection(N_ad) >> }

RunLedgers ==
    { [ readable |-> FALSE, profiles |-> EmptyMap ],
      [ readable |-> TRUE, profiles |-> (N_adr :> 2 @@ N_apw :> 1) ],
      [ readable |-> TRUE, profiles |-> (N_bdrw :> 1) ] }

ledgerVars == << recent_mem, lastRecord >>
parseVars == << pname, parsed >>
treeVars == << app, key >>
urlVars == << url, normalized >>
importVars == << written, fcall >>
auxVars == << treeVars, urlVars, importVars >>
inputVars == << config, settingsFile, cli, opts, auxVars >>

TreeIdle ==
    /\ app = <<>>
    /\ key = ""

UrlIdle ==
    /\ url = <<>>
    /\ normalized = <<>>

ImportIdle ==
    /\ written = None
    /\ fcall = <<>>

AuxIdle ==
    /\ TreeIdle
    /\ UrlIdle
    /\ ImportIdle
selVars == << profiles, chosen_client, chosen_account, chosen_role,
              set_default, max_recent, mode, preset, printed >>

Init ==
    /\ pc = "start"
    /\ config \in RunConfigs
    /\ settingsFile \in SettingsFiles
    /\ ledger \in RunLedgers
    /\ ledger0 = ledger
    /\ profiles = <<>>
    /\ chosen_client = None
    /\ chosen_account = None
    /\ chosen_role = None
    /\ set_default = FALSE
    /\ max_recent = 0
    /\ mode = ""
    /\ offered = <<>>
    /\ resolved = None
    /\ outcome = ""
    /\ exitCode = -1
    /\ printed = <<>>
    /\ preset = << None, None, None >>
    /\ picks = <<>>
    /\ calls = <<>>
    /\ recent_mem = EmptyMap
    /\ lastRecord = <<>>
    /\ AuxIdle
    /\ pname = <<>>
    /\ parsed = None
    /\ cli = None
    /\ reads = <<>>
    /\ opts = NoOpts

Goto(go) ==
    /\ pc' = go.pc
    /\ offered' = go.offered
    /\ resolved' = go.resolved
    /\ outcome' = go.outcome
    /\ exitCode' = go.exitCode

(* mutant: the empty profile list is not tested *)
NoProfiles_NotTested(loaded) == FALSE

(* `if profiles.is_empty()` *)
NoProfiles(loaded) == loaded = <<>>

(* mutant: list mode does not return before the selection *)
AfterLoad_ListFallsThrough(list, unified_mode, ps, cc, ca, cr) ==
    IF unified_mode THEN Running("pick_unified", UnifiedRows(ps), None)
    ELSE Cascade(1, ps, cc, ca, cr)

(* main after the recency sort: list mode, else the first picker call of
   the mode, else the resolution *)
AfterLoad(list, unified_mode, ps, cc, ca, cr) ==
    IF list THEN Exit("Listed", 0)
    ELSE IF unified_mode THEN Running("pick_unified", UnifiedRows(ps), None)
    ELSE Cascade(1, ps, cc, ca, cr)

(* main from its first line to the first blocking call or exit, for a
   command line of argsSet *)
StartWith(argsSet) ==
    /\ pc = "start"
    /\ \E args \in argsSet :
         LET loaded == main_load_profiles(config)
             settings == load_settings(settingsFile)
             cc == OrElse(args.client, settings.default_client)
             ca == OrElse(args.account, settings.default_account)
             cr == OrElse(args.role, settings.default_role)
             unified_mode == args.unified \/ UnwrapOr(settings.unified_mode, FALSE)
             sd == args.set_default \/ UnwrapOr(settings.set_default, FALSE)
             list == args.list \/ UnwrapOr(settings.list, FALSE)
             recent == args.recent \/ UnwrapOr(settings.recent, FALSE)
             ps == IF recent
                   THEN SortByRecent(loaded, load_recent_profiles(ledger))
                   ELSE loaded
         IN /\ cli' = Some(args)
            /\ IF NoProfiles(loaded)
               THEN /\ Goto(Exit("ConfigurationEmpty", 1))
                    /\ reads' = << "config" >>
                    /\ UNCHANGED selVars
               ELSE
                 /\ reads' = << "config", "settings" >>
                              \o (IF recent THEN << "recent" >> ELSE <<>>)
                 /\ profiles' = ps
                 /\ chosen_client' = cc
                 /\ chosen_account' = ca
                 /\ chosen_role' = cr
                 /\ preset' = << cc, ca, cr >>
                 /\ set_default' = sd
                 /\ max_recent' = UnwrapOr(settings.max_recent_profiles, DefaultMaxRecent)
                 /\ mode' = IF list THEN "list"
                            ELSE IF unified_mode THEN "unified" ELSE "cascading"
                 /\ printed' = IF list THEN MapField(ps, "name") ELSE <<>>
                 /\ Goto(AfterLoad(list, unified_mode, ps, cc, ca, cr))
    /\ UNCHANGED << config, settingsFile, opts, auxVars, ledger, ledger0, picks, calls,
                    ledgerVars, parseVars >>

Start == StartWith(ArgsSet)

(* a skim_pick call returns, and main runs on to the next blocking call *)
PickReturn(at) ==
    /\ pc = at
    /\ \E out \in PickerOutputs(offered) :
         LET choice == skim_pick(out)
             parts == IF choice # None /\ at = "pick_unified"
                      THEN UnifiedParts(choice[1]) ELSE <<>>
             cc == IF choice = None THEN chosen_client
                   ELSE IF at = "pick_unified" THEN Some(parts[1])
                   ELSE IF at = "pick_client" THEN choice ELSE chosen_client
             ca == IF choice = None THEN chosen_account
                   ELSE IF at = "pick_unified" THEN Some(parts[2])
                   ELSE IF at = "pick_account" THEN choice ELSE chosen_account
             cr == IF choice = None THEN chosen_role
                   ELSE IF at = "pick_unified" THEN Some(parts[3])
                   ELSE IF at = "pick_role" THEN choice ELSE chosen_role
         IN /\ chosen_client' = cc
            /\ chosen_account' = ca
            /\ chosen_role' = cr
            /\ picks' = Append(picks, [ at |-> at, options |-> offered,
                                        is_abort |-> out.ran /\ out.is_abort,
                                        choice |-> choice ])
            /\ Goto(IF choice = None THEN OnPickNone(profiles, cc, ca, cr)
                    ELSE IF at = "pick_unified" THEN Resolve(profiles, cc, ca, cr)
                    ELSE IF at = "pick_client" THEN Cascade(2, profiles, cc, ca, cr)
                    ELSE IF at = "pick_account" THEN Cascade(3, profiles, cc, ca, cr)
                    ELSE Resolve(profiles, cc, ca, cr))
    /\ UNCHANGED << inputVars, ledger, ledger0, profiles, set_default, max_recent,
                    mode, preset, printed, calls, ledgerVars, parseVars, reads >>

PickUnifiedReturn == PickReturn("pick_unified")
PickClientReturn == PickReturn("pick_client")
PickAccountReturn == PickReturn("pick_account")
PickRoleReturn == PickReturn("pick_role")

(* `aws sso login --profile <name>` returns *)
LoginReturn ==
    /\ pc = "login"
    /\ \E status \in { "spawn_error", "failure", "success" } :
         LET go == OnLogin(status)
         IN /\ pc' = go.pc
            /\ outcome' = go.outcome
            /\ exitCode' = go.exitCode
            /\ calls' = Append(calls, << "login", resolved[1].name, status >>)
    /\ UNCHANGED << inputVars, ledger, ledger0, selVars, offered, resolved, picks,
                    ledgerVars, parseVars, reads >>

(* save_recent_profile(profile_name, max_entries): load, insert at the
   current time, prune, write *)
save_recent_profile(profile_name, max_entries) ==
    \E ts \in 1..MaxTime, writeOk \in BOOLEAN :
        LET before == load_recent_profiles(ledger)
            inserted == RecordInsert(before, profile_name, ts)
        IN \E order \in IterationOrders(inserted, max_entries) :
             LET m == RecordResult(ledger, profile_name, max_entries, ts, order)
             IN /\ recent_mem' = m
                /\ ledger' = WriteRecent(ledger, m, writeOk)
                /\ lastRecord' = << profile_name, max_entries, ts, writeOk, before >>

(* main: save_recent_profile(&profile.name, max_recent), then the
   set_default test *)
SaveRecent ==
    /\ pc = "save_recent"
    /\ save_recent_profile(resolved[1].name, max_recent)
    /\ reads' = Append(reads, "recent")
    /\ LET go == AfterRecord(set_default)
       IN /\ pc' = go.pc
          /\ outcome' = go.outcome
          /\ exitCode' = go.exitCode
          /\ calls' = Append(calls, << "record", resolved[1].name, "" >>)
    /\ UNCHANGED << inputVars, ledger0, selVars, offered, resolved, picks, parseVars >>

(* set_default_profile(&profile.name) returns *)
SetDefaultReturn ==
    /\ pc = "set_default"
    /\ \E result \in { "ok", "err" } :
         LET go == OnSetDefault(result)
         IN /\ pc' = go.pc
            /\ outcome' = go.outcome
            /\ exitCode' = go.exitCode
            /\ calls' = Append(calls, << "set_default", resolved[1].name, result >>)
    /\ UNCHANGED << inputVars, ledger, ledger0, selVars, offered, resolved, picks,
                    ledgerVars, parseVars, reads >>

Next ==
    \/ Start
    \/ PickUnifiedReturn
    \/ PickClientReturn
    \/ PickAccountReturn
    \/ PickRoleReturn
    \/ LoginReturn
    \/ SaveRecent
    \/ SetDefaultReturn

Spec == Init /\ [][Next]_vars

-----------------------------------------------------------------------------
(* Properties of the run *)

PickStates == { "pick_unified", "pick_client", "pick_account", "pick_role" }

Aborted == \E i \in 1..Len(picks) : picks[i].is_abort

CallsOf(op) == { i \in 1..Len(calls) : calls[i][1] = op }

SlotsFilled == chosen_client # None /\ chosen_account # None /\ chosen_role # None

(* C1: once the operator aborts a picker (at the client, account or role
   step, or at the unified pick) the run is over with the clean
   SelectionCancelled outcome and exit status 0; no login, no record, no
   set-default call was or will be made, the ledger file is as the run
   found it, and the outcome is neither SelectionIncomplete nor
   NoMatchingProfile. *)
C1_CancelIsClean ==
    Aborted =>
        /\ pc = "done"
        /\ outcome = "SelectionCancelled"
        /\ exitCode = 0
        /\ calls = <<>>
        /\ ledger = ledger0
        /\ outcome \notin { "SelectionIncomplete", "NoMatchingProfile" }

(* the operator picks a client and an account, then aborts the role picker *)
C1_Witness ==
    /\ mode = "cascading"
    /\ Len(picks) = 3
    /\ picks[1].choice # None
    /\ picks[2].choice # None
    /\ picks[3].at = "pick_role"
    /\ picks[3].is_abort
    /\ pc = "done"

(* C2 as claimed: a run that ends with a slot unfilled although the operator
   never aborted a picker ends in SelectionIncomplete with a non-zero exit
   status. *)
C2_IncompleteIsReported ==
    ( /\ pc = "done"
      /\ mode \in { "unified", "cascading" }
      /\ ~Aborted
      /\ ~SlotsFilled )
    => (outcome = "SelectionIncomplete" /\ exitCode # 0)

(* the picker calls made so far, the one in progress included *)
PickerCalls ==
    [ i \in 1..Len(picks) |-> [ at |-> picks[i].at, options |-> picks[i].options ] ]
    \o (IF pc \in PickStates THEN << [ at |-> pc, options |-> offered ] >> ELSE <<>>)

SlotIndex(at) ==
    IF at = "pick_client" THEN 1 ELSE IF at = "pick_account" THEN 2 ELSE 3

(* C3: in step-by-step mode a picker is called only for a slot that the
   merge of arguments and settings left unset, the calls come in the order
   client, account, role, a pre-filled slot keeps its value to the end, and
   with all three slots pre-filled no picker is called and the run goes
   straight to the resolution. *)
C3_PresetSlotsSkipped ==
    mode = "cascading" =>
        /\ \A i \in 1..Len(PickerCalls) :
             /\ PickerCalls[i].at \in { "pick_client", "pick_account", "pick_role" }
             /\ preset[SlotIndex(PickerCalls[i].at)] = None
        /\ \A i, j \in 1..Len(PickerCalls) :
             i < j => SlotIndex(PickerCalls[i].at) < SlotIndex(PickerCalls[j].at)
        /\ preset[1] # None => chosen_client = preset[1]
        /\ preset[2] # None => chosen_account = preset[2]
        /\ preset[3] # None => chosen_role = preset[3]
        /\ (preset[1] # None /\ preset[2] # None /\ preset[3] # None) =>
             /\ PickerCalls = <<>>
             /\ \/ pc \in { "login", "save_recent", "set_default" }
                \/ pc = "done" /\ outcome \in { "NoMatchingProfile", "Success",
                                               "ExternalActionFailure" }

(* client and role pre-filled: only the account picker was called, and the
   run reached the login of the resolved profile *)
C3_Witness ==
    /\ mode = "cascading"
    /\ preset[1] # None /\ preset[2] = None /\ preset[3] # None
    /\ Len(picks) = 1
    /\ picks[1].at = "pick_account"
    /\ pc = "login"
    /\ chosen_role = preset[3]

IsFailure(call) ==
    \/ call[1] = "login" /\ call[3] # "success"
    \/ call[1] = "set_default" /\ call[3] = "err"

(* C5 as claimed: a run in which an external action (login or set-default)
   reported a failure ends with a non-zero exit status, as an
   ExternalActionFailure, and the failed action was called once. *)
C5_FailureIsTerminal ==
    (pc = "done" /\ \E i \in 1..Len(calls) : IsFailure(calls[i])) =>
        /\ exitCode # 0
        /\ outcome = "ExternalActionFailure"
        /\ \A i, j \in 1..Len(calls) : calls[i][1] = calls[j][1] => i = j

(* C6: a record call is made exactly when the login succeeded, for the name
   of the resolved profile, once, right after the login and before any
   set-default call; without a successful login the ledger file is as the
   run found it; and the result of a set-default call leaves what the record
   call wrote in place. *)
C6_RecordIffLoginSucceeded ==
    /\ \A i \in CallsOf("record") :
         /\ i = 2
         /\ calls[1] = << "login", resolved[1].name, "success" >>
         /\ calls[i][2] = resolved[1].name
    /\ \A i \in CallsOf("set_default") : i = 3 /\ calls[2][1] = "record"
    /\ Cardinality(CallsOf("record")) <= 1
    /\ (pc \in { "set_default", "done" } /\ << "login", "success" >> \in
            { << calls[i][1], calls[i][3] >> : i \in 1..Len(calls) })
         => Cardinality(CallsOf("record")) = 1
    /\ CallsOf("record") = {} => ledger = ledger0
    /\ (CallsOf("record") # {} /\ lastRecord[4]) =>
           ledger = [ readable |-> TRUE, profiles |-> recent_mem ]
    /\ (CallsOf("record") # {} /\ ~lastRecord[4]) => ledger = ledger0

(* login succeeded, the name was recorded and written, then set-default
   failed *)
C6_Witness ==
    /\ pc = "done"
    /\ Len(calls) = 3
    /\ calls[1][3] = "success"
    /\ calls[2][1] = "record"
    /\ calls[3] = << "set_default", resolved[1].name, "err" >>
    /\ lastRecord[4]
    /\ resolved[1].name \in DOMAIN ledger.profiles

NoProfileHas(client, account, role) ==
    ~\E i \in 1..Len(profiles) :
        /\ profiles[i].client = client
        /\ profiles[i].account = account
        /\ profiles[i].role = role

(* C9: when the selection has ended with all three slots filled (no picker
   call returned without a choice) and no profile has that client, account
   and role, the run is over as NoMatchingProfile with exit status 1, with
   no login, record or set-default call, the ledger file untouched, and no
   further picker call. *)
C9_NoMatchIsTerminal ==
    ( /\ mode \in { "unified", "cascading" }
      /\ pc \notin PickStates
      /\ \A i \in 1..Len(picks) : picks[i].choice # None
      /\ SlotsFilled
      /\ NoProfileHas(chosen_client[1], chosen_account[1], chosen_role[1]) )
    => /\ pc = "done"
       /\ outcome = "NoMatchingProfile"
       /\ exitCode = 1
       /\ calls = <<>>
       /\ ledger = ledger0
       /\ resolved = None

(* role pre-filled, client and account picked, and no profile has the three *)
C9_Witness ==
    /\ mode = "cascading"
    /\ Len(picks) = 2
    /\ preset[3] # None
    /\ SlotsFilled
    /\ NoProfileHas(chosen_client[1], chosen_account[1], chosen_role[1])
    /\ outcome = "NoMatchingProfile"

(* a strictly ascending sequence whose elements are exactly the set S *)
IsSortedSetOf(seq, set) ==
    /\ Range(seq) = set
    /\ \A i \in 1..(Len(seq) - 1) : StrLess(seq[i], seq[i + 1])

(* C10: in step-by-step mode with no slot pre-filled, the client picker is
   offered the sorted distinct clients of all profiles, the account picker
   the sorted distinct accounts of the picked client, the role picker the
   sorted distinct roles of the picked client and account; after three
   picks the run holds a resolved profile whose client, account and role
   are the three picks, and it never ends as NoMatchingProfile or
   SelectionIncomplete. *)
C10_CascadeOffersAndResolves ==
    (mode = "cascading" /\ preset = << None, None, None >>) =>
        /\ \A i \in 1..Len(PickerCalls) :
             /\ i = 1 =>
                  /\ PickerCalls[i].at = "pick_client"
                  /\ IsSortedSetOf(PickerCalls[i].options,
                         { profiles[k].client : k \in 1..Len(profiles) })
             /\ i = 2 =>
                  /\ PickerCalls[i].at = "pick_account"
                  /\ IsSortedSetOf(PickerCalls[i].options,
                         { profiles[k].account :
                             k \in { k \in 1..Len(profiles) :
                                       profiles[k].client = picks[1].choice[1] } })
             /\ i = 3 =>
                  /\ PickerCalls[i].at = "pick_role"
                  /\ IsSortedSetOf(PickerCalls[i].options,
                         { profiles[k].role :
                             k \in { k \in 1..Len(profiles) :
                                       /\ profiles[k].client = picks[1].choice[1]
                                       /\ profiles[k].account = picks[2].choice[1] } })
        /\ outcome \notin { "NoMatchingProfile", "SelectionIncomplete" }
        /\ (Len(picks) = 3 /\ picks[3].choice # None) =>
             /\ resolved # None
             /\ resolved[1].client = picks[1].choice[1]
             /\ resolved[1].account = picks[2].choice[1]
             /\ resolved[1].role = picks[3].choice[1]
             /\ resolved[1] \in Range(profiles)

(* scenario A: both a-d-r and a-p-w are configured; the pickers offer [a],
   [d, p] and [r], and the run resolves a-d-r *)
C10_Witness ==
    /\ mode = "cascading"
    /\ preset = << None, None, None >>
    /\ Len(picks) = 3
    /\ picks[1].options = << << "a" >> >>
    /\ picks[2].options = << << "d" >>, << "p" >> >>
    /\ picks[2].choice = Some(<< "d" >>)
    /\ picks[3].options = << << "r" >> >>
    /\ pc = "login"
    /\ resolved[1].name = N_adr

-----------------------------------------------------------------------------
(* profile.rs: the configuration as ini sections *)

RequiredKeys == { "sso_session", "sso_account_id", "sso_role_name" }

(* ini.section(Some(&format!("sso-session {}", name))): the first section
   of that name *)
SessionSection(ini, name) ==
    LET hits == { i \in 1..Len(ini) : ini[i].kind = "sso-session" /\ ini[i].id = name }
    IN IF hits = {} THEN None
       ELSE Some(ini[CHOOSE i \in hits : \A j \in hits : i <= j])

parse_profile(name, properties, ini) ==
    LET parts == SplitParts(name)
    IN IF \/ Len(parts) < MinParts
          \/ "sso_session" \notin DOMAIN properties
          \/ "sso_account_id" \notin DOMAIN properties
          \/ "sso_role_name" \notin DOMAIN properties
       THEN None
       ELSE LET session == SessionSection(ini, properties["sso_session"])
            IN IF session = None THEN None
               ELSE IF "sso_start_url" \notin DOMAIN session[1].props THEN None
               ELSE Some([ name |-> name,
                           client |-> ClientOf(parts),
                           account |-> AccountOf(parts),
                           role |-> RoleOf(parts),
                           sso_account_id |-> properties["sso_account_id"],
                           sso_role_name |-> properties["sso_role_name"],
                           sso_start_url |-> session[1].props["sso_start_url"] ])

(* the body of the loop of load_profiles for one section *)
LoadSection(section, ini) ==
    IF section.kind = "profile"
    THEN parse_profile(section.id, section.props, ini)
    ELSE None

RECURSIVE LoadFrom(_, _)
LoadFrom(sections, ini) ==
    IF sections = <<>> THEN <<>>
    ELSE LoadFrom(SubSeq(sections, 1, Len(sections) - 1), ini)
         \o LoadSection(sections[Len(sections)], ini)

(* mutant: the loop ends at the first profile section that does not parse *)
RECURSIVE LoadUntilBad(_, _)
LoadUntilBad(sections, ini) ==
    IF sections = <<>> THEN <<>>
    ELSE IF sections[1].kind = "profile" /\ LoadSection(sections[1], ini) = None
    THEN <<>>
    ELSE LoadSection(sections[1], ini) \o LoadUntilBad(Tail(sections), ini)

load_profiles_StopsAtFirstBad(ini, loadOk) ==
    IF ~loadOk THEN <<>> ELSE LoadUntilBad(ini, ini)

(* load_profiles(config_path); loadOk: Ini::load_from_file succeeded *)
load_profiles(ini, loadOk) ==
    IF ~loadOk THEN <<>> ELSE LoadFrom(ini, ini)

-----------------------------------------------------------------------------
(* The variables a specification does not use *)

RunIdle ==
    /\ profiles = <<>>
    /\ chosen_client = None
    /\ chosen_account = None
    /\ chosen_role = None
    /\ set_default = FALSE
    /\ max_recent = 0
    /\ mode = ""
    /\ offered = <<>>
    /\ resolved = None
    /\ outcome = ""
    /\ exitCode = -1
    /\ printed = <<>>
    /\ preset = << None, None, None >>
    /\ picks = <<>>
    /\ calls = <<>>
    /\ cli = None
    /\ reads = <<>>

runVars == << selVars, offered, resolved, outcome, exitCode, picks, calls >>

-----------------------------------------------------------------------------
(* The ledger under any sequence of record calls *)

Maps(keys, values) == UNION { [ d -> values ] : d \in SUBSET keys }

LedgerFiles ==
    { [ readable |-> FALSE, profiles |-> EmptyMap ] }
    \cup { [ readable |-> TRUE, profiles |-> m ] : m \in Maps(NamePool, 1..MaxTime) }

InitLedger ==
    /\ pc = "ledger"
    /\ config = <<>>
    /\ settingsFile \in { f \in SettingsFiles : ~f.exists }
    /\ ledger \in LedgerFiles
    /\ ledger0 = [ readable |-> FALSE, profiles |-> EmptyMap ]
    /\ recent_mem = EmptyMap
    /\ lastRecord = <<>>
    /\ AuxIdle
    /\ pname = <<>>
    /\ parsed = None
    /\ opts = NoOpts
    /\ RunIdle

Record ==
    /\ pc = "ledger"
    /\ \E name \in NamePool, cap \in 0..MaxCap : save_recent_profile(name, cap)
    /\ reads' = << "recent" >>
    /\ UNCHANGED << pc, inputVars, ledger0, runVars, parseVars >>

NextLedger == Record

SpecLedger == InitLedger /\ [][NextLedger]_vars

Min(a, b) == IF a <= b THEN a ELSE b

(* C4: after every record(name, cap) call the mapping it serialises holds at
   most cap entries; they are entries present after the insertion, with
   their timestamps; as many as the cap allows; and none of them is older
   than an entry that was dropped.  A successful write leaves exactly that
   mapping in the ledger file. *)
C4_LedgerCapped ==
    lastRecord # <<>> =>
        LET name == lastRecord[1]
            cap == lastRecord[2]
            ts == lastRecord[3]
            writeOk == lastRecord[4]
            before == lastRecord[5]
            present == (DOMAIN before) \cup { name }
            timeOf(n) == IF n = name THEN ts ELSE before[n]
            kept == DOMAIN recent_mem
        IN /\ Cardinality(kept) <= cap
           /\ kept \subseteq present
           /\ \A n \in kept : recent_mem[n] = timeOf(n)
           /\ Cardinality(kept) = Min(cap, Cardinality(present))
           /\ \A k \in kept : \A d \in present \ kept : timeOf(k) >= timeOf(d)
           /\ writeOk =>
                /\ ledger = [ readable |-> TRUE, profiles |-> recent_mem ]
                /\ Cardinality(DOMAIN ledger.profiles) <= cap

(* scenario E: {a-d-r: 2, a-p-w: 1}, cap 1, record a-p-w at time 3 leaves
   {a-p-w: 3} *)
C4_Witness ==
    /\ lastRecord = << N_apw, 1, 3, TRUE, (N_adr :> 2 @@ N_apw :> 1) >>
    /\ recent_mem = (N_apw :> 3)
    /\ ledger = [ readable |-> TRUE, profiles |-> (N_apw :> 3) ]

-----------------------------------------------------------------------------
(* The naming rule on every short name *)

NameChars == { "-", "a", "b" }

Url == << "u" >>
GoodProps ==
    [ sso_session |-> << "s" >>, sso_account_id |-> << "1" >>,
      sso_role_name |-> << "A" >> ]
SessionWithUrl(id) ==
    [ kind |-> "sso-session", id |-> id, props |-> [ sso_start_url |-> Url ] ]
SessionWithoutUrl(id) ==
    [ kind |-> "sso-session", id |-> id, props |-> [ sso_region |-> << "e" >> ] ]

InitParse ==
    /\ pc = "parse"
    /\ pname \in SeqsUpTo(NameChars, MaxNameLen)
    /\ parsed = None
    /\ config = << SessionWithUrl(<< "s" >>) >>
    /\ settingsFile \in { f \in SettingsFiles : ~f.exists }
    /\ ledger = [ readable |-> FALSE, profiles |-> EmptyMap ]
    /\ ledger0 = ledger
    /\ recent_mem = EmptyMap
    /\ lastRecord = <<>>
    /\ AuxIdle
    /\ opts = NoOpts
    /\ RunIdle

(* the name as a well-formed section of profile.rs, and as a line of main.rs *)
Parse ==
    /\ pc = "parse"
    /\ pc' = "parsed"
    /\ parsed' = << parse_profile(pname, GoodProps, config),
                    main_parse_line(ProfileSection(pname)) >>
    /\ UNCHANGED << inputVars, ledger, ledger0, runVars, ledgerVars, pname, reads >>

NextParse == Parse

SpecParse == InitParse /\ [][NextParse]_vars

Dashes(name) == { i \in 1..Len(name) : name[i] = "-" }

(* C7: a name with n components has n - 1 separators.  With n >= 3 both
   loaders produce a profile of that name whose client is the text before
   the first '-', whose account is the text between the first and the
   second '-', and whose role is all the text after the second '-' (its
   n - 2 components with their separators); with n < 3 neither produces a
   profile. *)
C7_NamingRule ==
    pc = "parsed" =>
        IF Cardinality(Dashes(pname)) + 1 >= 3
        THEN LET d1 == CHOOSE i \in Dashes(pname) : \A j \in Dashes(pname) : i <= j
                 d2 == CHOOSE i \in Dashes(pname) \ { d1 } :
                           \A j \in Dashes(pname) \ { d1 } : i <= j
             IN \A k \in 1..2 :
                  /\ parsed[k] # None
                  /\ parsed[k][1].name = pname
                  /\ parsed[k][1].client = SubSeq(pname, 1, d1 - 1)
                  /\ parsed[k][1].account = SubSeq(pname, d1 + 1, d2 - 1)
                  /\ parsed[k][1].role = SubSeq(pname, d2 + 1, Len(pname))
                  /\ Cardinality(Dashes(parsed[k][1].role)) + 1
                       = Cardinality(Dashes(pname)) + 1 - 2
        ELSE parsed = << None, None >>

(* a-b-a-b: four components, the role is a-b *)
C7_Witness ==
    /\ pc = "parsed"
    /\ pname = << "a", "-", "b", "-", "a", "-", "b" >>
    /\ parsed[1] # None
    /\ parsed[1][1].role = << "a", "-", "b" >>
    /\ parsed[2][1].role = << "a", "-", "b" >>

-----------------------------------------------------------------------------
(* Loading a configuration with malformed sections *)

PartialProps ==
    { GoodProps,
      [ GoodProps EXCEPT !.sso_session = << "t" >> ],
      [ sso_account_id |-> << "1" >>, sso_role_name |-> << "A" >> ],
      [ sso_session |-> << "s" >>, sso_role_name |-> << "A" >> ],
      [ sso_session |-> << "s" >>, sso_account_id |-> << "1" >> ] }

LoadPool ==
    { [ kind |-> "profile", id |-> n, props |-> pr ] :
        n \in { N_adr, N_apw, N_ad }, pr \in PartialProps }
    \cup { SessionWithUrl(<< "s" >>), SessionWithoutUrl(<< "s" >>),
           SessionWithUrl(<< "t" >>) }

SectionName(section) == << section.kind, section.id >>

LoadConfigs ==
    { c \in SeqsUpTo(LoadPool, MaxSections) :
        \A i, j \in 1..Len(c) : SectionName(c[i]) = SectionName(c[j]) => i = j }

InitLoad ==
    /\ pc = "load"
    /\ config \in LoadConfigs
    /\ settingsFile \in { f \in SettingsFiles : ~f.exists }
    /\ ledger = [ readable |-> FALSE, profiles |-> EmptyMap ]
    /\ ledger0 = ledger
    /\ recent_mem = EmptyMap
    /\ lastRecord = <<>>
    /\ AuxIdle
    /\ pname = <<>>
    /\ parsed = None
    /\ opts = NoOpts
    /\ RunIdle

Load ==
    /\ pc = "load"
    /\ \E loadOk \in BOOLEAN :
         /\ profiles' = load_profiles(config, loadOk)
         /\ pc' = IF loadOk THEN "loaded" ELSE "unloadable"
    /\ UNCHANGED << inputVars, ledger, ledger0, chosen_client, chosen_account,
                    chosen_role, set_default, max_recent, mode, preset, printed,
                    offered, resolved, outcome, exitCode, picks, calls,
                    ledgerVars, parseVars, reads >>

NextLoad == Load

SpecLoad == InitLoad /\ [][NextLoad]_vars

(* the invariants of a profile section, stated on the configuration *)
WellFormed(section, cfg) ==
    /\ section.kind = "profile"
    /\ Cardinality(Dashes(section.id)) >= 2
    /\ RequiredKeys \subseteq DOMAIN section.props
    /\ \E j \in 1..Len(cfg) :
         /\ cfg[j].kind = "sso-session"
         /\ cfg[j].id = section.props["sso_session"]
         /\ "sso_start_url" \in DOMAIN cfg[j].props

(* C8: the profiles loaded from a configuration are, in order, exactly its
   well-formed profile sections, each fully constructed: a profile section
   that lacks a required key, or whose session section is absent or has no
   start URL, contributes nothing and hides no other section. *)
C8_LoadSkipsMalformed ==
    pc = "loaded" =>
        LET good == SelectSeqIdx(config,
                        { i \in 1..Len(config) : WellFormed(config[i], config) })
        IN /\ Len(profiles) = Len(good)
           /\ \A k \in 1..Len(good) :
                /\ profiles[k].name = good[k].id
                /\ profiles[k].sso_account_id = good[k].props["sso_account_id"]
                /\ profiles[k].sso_role_name = good[k].props["sso_role_name"]
                /\ profiles[k].sso_start_url = Url

(* a profile section without sso_account_id, then a well-formed one and its
   session: one profile is loaded *)
C8_Witness ==
    /\ pc = "loaded"
    /\ Len(config) = 3
    /\ config[1].kind = "profile"
    /\ "sso_account_id" \notin DOMAIN config[1].props
    /\ WellFormed(config[2], config)
    /\ Len(profiles) = 1
    /\ profiles[1].name = config[2].id

-----------------------------------------------------------------------------
(* The run on profile names that hold the row delimiter or a blank: the
   regex of load_profiles, ^\[profile (.+)\], takes any text up to the last
   ']' of the line as the name *)

N_adr_pipe == << "a", "-", "d", "-", "r", "|", "w" >>
N_ad_blank_r == << "a", "-", "d", " ", "-", "r" >>

RowPool == { N_adr, N_adr_pipe, N_ad_blank_r }

RowConfigs == SeqsUpTo({ ProfileSection(n) : n \in RowPool }, MaxLines)

InitRows ==
    /\ pc = "start"
    /\ config \in RowConfigs
    /\ settingsFile \in { f \in SettingsFiles : ~f.exists }
    /\ ledger = [ readable |-> FALSE, profiles |-> EmptyMap ]
    /\ ledger0 = ledger
    /\ recent_mem = EmptyMap
    /\ lastRecord = <<>>
    /\ AuxIdle
    /\ pname = <<>>
    /\ parsed = None
    /\ opts = NoOpts
    /\ RunIdle

SpecRows == InitRows /\ [][Next]_vars

(* "client | account | role | name", written out *)
RowText(p) ==
    p.client \o << " ", "|", " " >> \o p.account \o << " ", "|", " " >>
    \o p.role \o << " ", "|", " " >> \o p.name

(* C11 as claimed: in unified mode the picker is offered one row
   "client | account | role | name" per profile, in order, and once the
   operator has picked the row of a profile p the three slots hold exactly
   p.client, p.account and p.role and the run has resolved a profile with
   that triple (never NoMatchingProfile). *)
C11_RowRoundTrip ==
    (mode = "unified" /\ Len(picks) = 1 /\ picks[1].choice # None) =>
        /\ Len(picks[1].options) = Len(profiles)
        /\ \A i \in 1..Len(profiles) :
             /\ picks[1].options[i] = RowText(profiles[i])
             /\ picks[1].choice[1] = RowText(profiles[i]) =>
                  /\ chosen_client = Some(profiles[i].client)
                  /\ chosen_account = Some(profiles[i].account)
                  /\ chosen_role = Some(profiles[i].role)
                  /\ outcome # "NoMatchingProfile"
                  /\ resolved # None
                  /\ resolved[1].client = profiles[i].client
                  /\ resolved[1].account = profiles[i].account
                  /\ resolved[1].role = profiles[i].role

-----------------------------------------------------------------------------
(* Properties of the run that refer to the command line and the files *)

(* the sections of the configuration whose name has at least three parts *)
Qualifying ==
    SelectSeqIdx(config, { i \in 1..Len(config) : Cardinality(Dashes(config[i].id)) >= 2 })

QualifyingNames == [ i \in 1..Len(Qualifying) |-> Qualifying[i].id ]

ProfileNames == [ i \in 1..Len(profiles) |-> profiles[i].name ]

Count(seq, x) == Cardinality({ i \in 1..Len(seq) : seq[i] = x })

IsPermutationOf(seq, other) ==
    /\ Len(seq) = Len(other)
    /\ \A x \in Range(seq) \cup Range(other) : Count(seq, x) = Count(other, x)

(* the last-used time the ledger file held for a name when the run began *)
LedgerTime(name) ==
    IF ledger0.readable /\ name \in DOMAIN ledger0.profiles
    THEN ledger0.profiles[name] ELSE 0

IsByRecency(names) ==
    \A i, j \in 1..Len(names) : i < j => LedgerTime(names[i]) >= LedgerTime(names[j])

SettingsUsable == settingsFile.exists /\ settingsFile.parses

StoredDefault(field) == IF SettingsUsable THEN settingsFile.content[field] ELSE None

FlagOn(flag, field) ==
    cli[1][flag] \/ (SettingsUsable /\ settingsFile.content[field] = Some(TRUE))

(* C12: a resolved profile is one of the loaded profiles, its client,
   account and role are the three slots, and every loaded profile with that
   triple is that same Profile, so the lookup gives the same Profile however
   often and in whatever order the unchanged profile set is searched; and
   when the selection ended with a triple that some profile has, a profile
   is resolved. *)
C12_ResolutionMatchesTriple ==
    /\ resolved # None =>
         /\ SlotsFilled
         /\ resolved[1].client = chosen_client[1]
         /\ resolved[1].account = chosen_account[1]
         /\ resolved[1].role = chosen_role[1]
         /\ resolved[1] \in Range(profiles)
         /\ \A i \in 1..Len(profiles) :
              ( /\ profiles[i].client = chosen_client[1]
                /\ profiles[i].account = chosen_account[1]
                /\ profiles[i].role = chosen_role[1] ) => profiles[i] = resolved[1]
    /\ ( /\ mode \in { "unified", "cascading" }
         /\ pc \notin PickStates
         /\ \A i \in 1..Len(picks) : picks[i].choice # None
         /\ SlotsFilled
         /\ ~NoProfileHas(chosen_client[1], chosen_account[1], chosen_role[1]) )
       => resolved # None

(* two different profiles are loaded and the triple is that of the second *)
C12_Witness ==
    /\ pc = "login"
    /\ Len(profiles) = 2
    /\ profiles[1] # profiles[2]
    /\ resolved = Some(profiles[2])

(* C14: whenever the list flag is on (argument or settings) and profiles
   were loaded, the run is over as Listed with exit status 0; no picker was
   called, no login, record or set-default call was made, the ledger file is
   untouched; what was printed is every loaded profile name, in
   configuration order, or by descending last-used time when the recent flag
   is on; whatever the other flags and the pre-filled slots are. *)
C14_ListOnly ==
    /\ (pc # "start" /\ Qualifying # <<>> /\ FlagOn("list", "list")) =>
         /\ mode = "list"
         /\ pc = "done"
         /\ outcome = "Listed"
         /\ exitCode = 0
         /\ picks = <<>>
         /\ offered = <<>>
         /\ calls = <<>>
         /\ lastRecord = <<>>
         /\ ledger = ledger0
         /\ IsPermutationOf(printed, QualifyingNames)
         /\ IF FlagOn("recent", "recent")
            THEN IsByRecency(printed)
            ELSE printed = QualifyingNames
    /\ mode = "list" => FlagOn("list", "list")

(* list with recent, unified and set-default all requested and every slot
   pre-filled: the two names are printed most recent first *)
C14_Witness ==
    /\ mode = "list"
    /\ cli[1].recent /\ cli[1].unified /\ cli[1].set_default
    /\ cli[1].client # None /\ cli[1].account # None /\ cli[1].role # None
    /\ QualifyingNames = << N_apw, N_adr >>
    /\ printed = << N_adr, N_apw >>
    /\ pc = "done"

(* C15: when no section of the configuration qualifies as a profile the run
   is over as ConfigurationEmpty with a non-zero exit status, and nothing
   else happened: no picker call, nothing listed, no login, record or
   set-default call, no read of the settings or of the ledger, no write of
   the ledger. *)
C15_EmptyConfigIsTerminal ==
    (pc # "start" /\ Qualifying = <<>>) =>
        /\ pc = "done"
        /\ outcome = "ConfigurationEmpty"
        /\ exitCode # 0
        /\ mode = ""
        /\ picks = <<>>
        /\ offered = <<>>
        /\ printed = <<>>
        /\ calls = <<>>
        /\ reads = << "config" >>
        /\ lastRecord = <<>>
        /\ ledger = ledger0

(* the only section has a two-part name; list and recent were requested *)
C15_Witness ==
    /\ config = << ProfileSection(N_ad) >>
    /\ pc = "done"
    /\ cli[1].list /\ cli[1].recent
    /\ outcome = "ConfigurationEmpty"
    /\ exitCode = 1

SlotArg == << "client", "account", "role" >>
SlotDefault == << "default_client", "default_account", "default_role" >>

(* C16: right after the merge each of the three slots holds the command
   argument when one was given, otherwise the default of the settings file
   when the file was usable and has one, otherwise nothing. *)
C16_ArgumentOverSettings ==
    mode # "" =>
        \A k \in 1..3 :
            preset[k] = IF cli[1][SlotArg[k]] # None THEN cli[1][SlotArg[k]]
                        ELSE StoredDefault(SlotDefault[k])

(* --client b against default_client = a and default_account = d *)
C16_Witness ==
    /\ mode # ""
    /\ cli[1].client = Some(<< "b" >>)
    /\ StoredDefault("default_client") = Some(<< "a" >>)
    /\ preset[1] = Some(<< "b" >>)
    /\ cli[1].account = None
    /\ preset[2] = Some(<< "d" >>)
    /\ preset[3] = None

(* C20: a settings file that cannot be used leaves the run with the
   arguments alone and the built-in defaults; a ledger file that cannot be
   read counts as an empty ledger (the profiles keep the configuration
   order, the record call starts from no entries); a failed ledger write
   leaves the file as it was and the run goes on exactly as after a
   successful write; and a run exits non-zero only as ConfigurationEmpty,
   NoMatchingProfile or ExternalActionFailure. *)
C20_PersistenceFailureIsAbsorbed ==
    /\ (mode # "" /\ ~SettingsUsable) =>
         /\ preset = << cli[1].client, cli[1].account, cli[1].role >>
         /\ set_default = cli[1].set_default
         /\ max_recent = DefaultMaxRecent
         /\ mode = IF cli[1].list THEN "list"
                   ELSE IF cli[1].unified THEN "unified" ELSE "cascading"
    /\ (mode # "" /\ ~ledger0.readable) => ProfileNames = QualifyingNames
    /\ (lastRecord # <<>> /\ ~ledger0.readable) => lastRecord[5] = EmptyMap
    /\ (lastRecord # <<>> /\ ~lastRecord[4]) => ledger = ledger0
    /\ lastRecord # <<>> =>
         /\ pc \in { "set_default", "done" }
         /\ Len(calls) = 2 => (pc = "set_default") = set_default
         /\ pc = "done" => (outcome = "Success" /\ exitCode = 0)
    /\ exitCode \notin { -1, 0 } =>
         outcome \in { "ConfigurationEmpty", "NoMatchingProfile",
                       "ExternalActionFailure" }

(* the settings file does not parse, the ledger file cannot be read, recent
   was requested, the ledger write failed: the run ends as a success *)
C20_Witness ==
    /\ pc = "done"
    /\ outcome = "Success"
    /\ settingsFile.exists /\ ~settingsFile.parses
    /\ ~ledger0.readable
    /\ cli[1].recent
    /\ Len(profiles) = 2
    /\ lastRecord # <<>> /\ ~lastRecord[4]

-----------------------------------------------------------------------------
(* The recency sort and the resolution, for every ledger content: main with
   the three slots given on the command line, with and without --recent *)

PresetArgs ==
    { a \in ArgsSet : /\ a.client # None /\ a.account # None /\ a.role # None
                      /\ ~a.list /\ ~a.unified /\ ~a.set_default }

InitRecent ==
    /\ pc = "start"
    /\ config \in RunConfigs
    /\ settingsFile \in { f \in SettingsFiles : ~f.exists }
    /\ ledger \in LedgerFiles
    /\ ledger0 = ledger
    /\ recent_mem = EmptyMap
    /\ lastRecord = <<>>
    /\ AuxIdle
    /\ pname = <<>>
    /\ parsed = None
    /\ opts = NoOpts
    /\ RunIdle

ResolvePreset == StartWith(PresetArgs)

NextRecent == ResolvePreset

SpecRecent == InitRecent /\ [][NextRecent]_vars

(* the name a profile of the three slots has *)
TripleName ==
    chosen_client[1] \o << "-" >> \o chosen_account[1] \o << "-" >> \o chosen_role[1]

(* C13: the profile sequence the run works on is a permutation of the
   loaded one; with the recent flag on it is in descending order of the
   last-used time of the ledger file, 0 for a name the ledger does not hold
   (or for every name when the file cannot be read); with the flag off it
   is the configuration order.  The resolution is a function of the
   configuration and the triple alone, hence the same with the flag on and
   off and for every ledger: a profile is resolved exactly when a section
   has the name of the triple, it is the profile of that name, and
   otherwise the run ends as NoMatchingProfile. *)
C13_RecencyOrderOnly ==
    mode # "" =>
        /\ IsPermutationOf(ProfileNames, QualifyingNames)
        /\ IF FlagOn("recent", "recent")
           THEN IsByRecency(ProfileNames)
           ELSE ProfileNames = QualifyingNames
        /\ (mode = "cascading" /\ SlotsFilled /\ picks = <<>>) =>
             /\ (resolved # None) = (TripleName \in Range(QualifyingNames))
             /\ resolved # None => resolved[1].name = TripleName
             /\ resolved = None => (pc = "done" /\ outcome = "NoMatchingProfile")

(* a-d-r is configured first, a-p-w is the more recent: the sort puts a-p-w
   first and the triple (a, d, r) still resolves a-d-r *)
C13_Witness ==
    /\ mode # ""
    /\ cli[1].recent
    /\ QualifyingNames = << N_adr, N_apw >>
    /\ ProfileNames = << N_apw, N_adr >>
    /\ pc = "login"
    /\ resolved[1].name = N_adr

-----------------------------------------------------------------------------
(* The candidate lists on every short profile sequence *)

(* profile.rs select_unique_values: the `options` it hands to the picker *)
UniqueOptions(ps, extractor) == BTreeCollect(MapField(ps, extractor))

(* profile.rs select_filtered_values: `filtered`, then select_unique_values *)
FilteredOptions(ps, keep, extractor) == UniqueOptions(SelectSeqIdx(ps, keep), extractor)

N_adw == << "a", "-", "d", "-", "w" >>
N_bpr == << "b", "-", "p", "-", "r" >>

IndexPool ==
    { MakeProfile(n, SplitParts(n)) : n \in { N_adr, N_adw, N_apw, N_bdrw, N_bpr } }

InitIndex ==
    /\ pc = "index"
    /\ profiles \in SeqsUpTo(IndexPool, MaxProfiles)
    /\ chosen_client \in { Some(c) : c \in ClientValues }
    /\ chosen_account \in { Some(a) : a \in AccountValues }
    /\ chosen_role = None
    /\ config = <<>>
    /\ settingsFile \in { f \in SettingsFiles : ~f.exists }
    /\ ledger = [ readable |-> FALSE, profiles |-> EmptyMap ]
    /\ ledger0 = ledger
    /\ recent_mem = EmptyMap
    /\ lastRecord = <<>>
    /\ AuxIdle
    /\ pname = <<>>
    /\ parsed = None
    /\ opts = NoOpts
    /\ set_default = FALSE
    /\ max_recent = 0
    /\ mode = ""
    /\ offered = <<>>
    /\ resolved = None
    /\ outcome = ""
    /\ exitCode = -1
    /\ printed = <<>>
    /\ preset = << None, None, None >>
    /\ picks = <<>>
    /\ calls = <<>>
    /\ cli = None
    /\ reads = <<>>

(* the list as main.rs builds it, and as profile.rs builds it *)
Offer(at, mainOptions, profileOptions) ==
    /\ pc = "index"
    /\ pc' = at
    /\ offered' = << mainOptions, profileOptions >>
    /\ UNCHANGED << inputVars, ledger, ledger0, selVars, resolved, outcome,
                    exitCode, picks, calls, ledgerVars, parseVars, reads >>

OfferClients ==
    Offer("clients", uniqueClients(profiles), UniqueOptions(profiles, "client"))

OfferAccounts ==
    Offer("accounts", uniqueAccounts(profiles, chosen_client[1]),
          FilteredOptions(profiles,
              { i \in 1..Len(profiles) : ClientFilter(profiles[i], chosen_client[1]) },
              "account"))

OfferRoles ==
    Offer("roles", uniqueRoles(profiles, chosen_client[1], chosen_account[1]),
          FilteredOptions(profiles,
              { i \in 1..Len(profiles) :
                  AccountFilter(profiles[i], chosen_client[1], chosen_account[1]) },
              "role"))

NextIndex == OfferClients \/ OfferAccounts \/ OfferRoles

SpecIndex == InitIndex /\ [][NextIndex]_vars

Reordered(ps, order) == [ i \in 1..Len(ps) |-> ps[order[i]] ]

(* C17: the client list of a profile sequence is strictly ascending, holds
   no value twice, its elements are exactly the client fields of the
   profiles, and every reordering of the profile sequence gives the same
   list. *)
C17_UniqueClientsSorted ==
    pc = "clients" =>
        /\ \A k \in 1..2 :
             /\ \A i \in 1..(Len(offered[k]) - 1) :
                  StrLess(offered[k][i], offered[k][i + 1])
             /\ \A i, j \in 1..Len(offered[k]) :
                  offered[k][i] = offered[k][j] => i = j
             /\ Range(offered[k]) = { profiles[i].client : i \in 1..Len(profiles) }
        /\ \A order \in Orderings(1..Len(profiles)) :
             /\ uniqueClients(Reordered(profiles, order)) = offered[1]
             /\ UniqueOptions(Reordered(profiles, order), "client") = offered[2]

(* clients b, a, b in that order give [a, b] *)
C17_Witness ==
    /\ pc = "clients"
    /\ Len(profiles) = 3
    /\ profiles[1].client = << "b" >>
    /\ profiles[2].client = << "a" >>
    /\ profiles[3].client = << "b" >>
    /\ offered[1] = << << "a" >>, << "b" >> >>
    /\ offered[2] = offered[1]

(* C18: every value of the role list for (client, account) is the role of a
   profile with exactly that client and that account, and the role of every
   such profile is in the list; likewise every value of the account list
   for a client is the account of a profile of that client, and the account
   of every such profile is in the list. *)
C18_FilteredValuesExact ==
    /\ pc = "roles" =>
         \A k \in 1..2 :
             /\ \A v \in Range(offered[k]) :
                  \E i \in 1..Len(profiles) :
                      /\ profiles[i].client = chosen_client[1]
                      /\ profiles[i].account = chosen_account[1]
                      /\ profiles[i].role = v
             /\ \A i \in 1..Len(profiles) :
                  ( /\ profiles[i].client = chosen_client[1]
                    /\ profiles[i].account = chosen_account[1] )
                  => profiles[i].role \in Range(offered[k])
    /\ pc = "accounts" =>
         \A k \in 1..2 :
             /\ \A v \in Range(offered[k]) :
                  \E i \in 1..Len(profiles) :
                      /\ profiles[i].client = chosen_client[1]
                      /\ profiles[i].account = v
             /\ \A i \in 1..Len(profiles) :
                  profiles[i].client = chosen_client[1]
                  => profiles[i].account \in Range(offered[k])

(* a-d-r, a-p-w and b-d-r-w filtered by (a, d): the only role is r *)
C18_Witness ==
    /\ pc = "roles"
    /\ ProfileNames = << N_adr, N_apw, N_bdrw >>
    /\ chosen_client = Some(<< "a" >>)
    /\ chosen_account = Some(<< "d" >>)
    /\ offered = << << << "r" >> >>, << << "r" >> >> >>

-----------------------------------------------------------------------------
(* The primary action on a resolved profile: aws.rs login_to_profile and
   open_console, and the choice between them *)

ActionConfig ==
    << [ kind |-> "profile", id |-> N_adr, props |-> GoodProps ],
       [ kind |-> "profile", id |-> N_apw, props |-> GoodProps ],
       [ kind |-> "profile", id |-> N_bdrw, props |-> GoodProps ],
       SessionWithUrl(<< "s" >>) >>

OptsSet ==
    [ console : BOOLEAN, force_reauth : BOOLEAN, check_session : BOOLEAN,
      browser : OptionOf({ << "f" >> }) ]

InitAction ==
    /\ pc = "dispatch"
    /\ config = ActionConfig
    /\ profiles = load_profiles(config, TRUE)
    /\ resolved \in { Some(profiles[i]) : i \in 1..Len(profiles) }
    /\ opts \in OptsSet
    /\ chosen_client = Some(resolved[1].client)
    /\ chosen_account = Some(resolved[1].account)
    /\ chosen_role = Some(resolved[1].role)
    /\ settingsFile \in { f \in SettingsFiles : ~f.exists }
    /\ ledger = [ readable |-> FALSE, profiles |-> EmptyMap ]
    /\ ledger0 = ledger
    /\ recent_mem = EmptyMap
    /\ lastRecord = <<>>
    /\ AuxIdle
    /\ pname = <<>>
    /\ parsed = None
    /\ set_default = FALSE
    /\ max_recent = 0
    /\ mode = ""
    /\ offered = <<>>
    /\ outcome = ""
    /\ exitCode = -1
    /\ printed = <<>>
    /\ preset = << None, None, None >>
    /\ picks = <<>>
    /\ calls = <<>>
    /\ cli = None
    /\ reads = <<>>

(* the one action a resolved profile is used for, selected by the console
   flag *)
PrimaryAction(console) == IF console THEN "open_console" ELSE "login_to_profile"

(* mutant: the session is probed although reauthentication is forced *)
ShouldCheckSession_IgnoresForce(force_reauth, check_session) == check_session

(* `check_session && !force_reauth && check_sso_session(..)`: the operands
   for which check_sso_session is called at all *)
ShouldCheckSession(force_reauth, check_session) == check_session /\ ~force_reauth

(* where login_to_profile first blocks *)
login_to_profile(force_reauth, check_session) ==
    IF ShouldCheckSession(force_reauth, check_session)
    THEN "check_sso_session" ELSE "aws_sso_login"

actionVars == << ledger, ledger0, selVars, offered, resolved, exitCode, picks,
                 ledgerVars, parseVars, reads >>

DispatchPrimary ==
    /\ pc = "dispatch"
    /\ LET action == PrimaryAction(opts.console)
       IN /\ calls' = Append(calls, << action, resolved[1].name, "" >>)
          /\ pc' = IF action = "open_console" THEN "open"
                   ELSE login_to_profile(opts.force_reauth, opts.check_session)
    /\ UNCHANGED << inputVars, actionVars, outcome >>

(* `aws sts get-caller-identity --profile <name>` returns; a valid session
   ends login_to_profile with Ok *)
CheckSsoSessionReturn ==
    /\ pc = "check_sso_session"
    /\ \E result \in { "valid", "invalid", "spawn_error" } :
         /\ calls' = Append(calls, << "check_sso_session", resolved[1].name, result >>)
         /\ pc' = IF result = "valid" THEN "done" ELSE "aws_sso_login"
         /\ outcome' = IF result = "valid" THEN "Ok" ELSE outcome
    /\ UNCHANGED << inputVars, actionVars >>

(* `aws sso login --profile <name>` returns *)
AwsSsoLoginReturn ==
    /\ pc = "aws_sso_login"
    /\ \E status \in { "spawn_error", "failure", "success" } :
         /\ calls' = Append(calls, << "login", resolved[1].name, status >>)
         /\ outcome' = IF status = "success" THEN "Ok" ELSE "Err"
    /\ pc' = "done"
    /\ UNCHANGED << inputVars, actionVars >>

(* the browser command of open_console returns *)
OpenConsoleReturn ==
    /\ pc = "open"
    /\ \E status \in { "spawn_error", "failure", "success" } :
         /\ calls' = Append(calls, << "open", resolved[1].name, status >>)
         /\ outcome' = IF status = "success" THEN "Ok" ELSE "Err"
    /\ pc' = "done"
    /\ UNCHANGED << inputVars, actionVars >>

NextAction ==
    \/ DispatchPrimary
    \/ CheckSsoSessionReturn
    \/ AwsSsoLoginReturn
    \/ OpenConsoleReturn

SpecAction == InitAction /\ [][NextAction]_vars

(* C19: for a resolved profile exactly one of login_to_profile and
   open_console is entered, the one the console flag selects, so the login
   command and the browser command are never both run and neither is run
   twice; login_to_profile ends without running the login command exactly
   when check_session is on, force_reauth is off and the session probe found
   a valid session; with force_reauth on the session is not probed and the
   login command is run. *)
C19_OnePrimaryAction ==
    pc # "dispatch" =>
        /\ Cardinality(CallsOf("login_to_profile") \cup CallsOf("open_console")) = 1
        /\ calls[1][1] = IF opts.console THEN "open_console" ELSE "login_to_profile"
        /\ CallsOf("login") = {} \/ CallsOf("open") = {}
        /\ Cardinality(CallsOf("login")) <= 1
        /\ Cardinality(CallsOf("open")) <= 1
        /\ \A i \in 1..Len(calls) : calls[i][2] = resolved[1].name
        /\ opts.console =>
             /\ CallsOf("login") = {}
             /\ CallsOf("check_sso_session") = {}
             /\ pc = "done" => CallsOf("open") # {}
        /\ ~opts.console =>
             /\ CallsOf("open") = {}
             /\ opts.force_reauth =>
                  /\ CallsOf("check_sso_session") = {}
                  /\ pc = "done" => CallsOf("login") # {}
             /\ pc = "done" =>
                  /\ (CallsOf("login") = {}) =
                       ( /\ opts.check_session
                         /\ ~opts.force_reauth
                         /\ << "check_sso_session", resolved[1].name, "valid" >>
                              \in Range(calls) )
                  /\ CallsOf("login") = {} => outcome = "Ok"

(* check_session on, no forced reauthentication, the session is valid: the
   login command is not run *)
C19_Witness ==
    /\ pc = "done"
    /\ ~opts.console /\ opts.check_session /\ ~opts.force_reauth
    /\ calls = << << "login_to_profile", resolved[1].name, "" >>,
                  << "check_sso_session", resolved[1].name, "valid" >> >>
    /\ outcome = "Ok"

-----------------------------------------------------------------------------
(* aws.rs: normalize_sso_start_url, applied to every short URL *)

MaxUrlLen == 5       \* characters of a start URL

UrlChars == { "x", "/", "#" }

(* str::trim_end_matches(c): every trailing repetition of c is removed *)
RECURSIVE TrimEndMatches(_, _)
TrimEndMatches(s, c) ==
    IF s # <<>> /\ s[Len(s)] = c
    THEN TrimEndMatches(SubSeq(s, 1, Len(s) - 1), c)
    ELSE s

normalize_sso_start_url_OneSlash(u) ==
    TrimEndMatches(TrimEndMatches(u, "/"), "#")

normalize_sso_start_url(u) ==
    TrimEndMatches(TrimEndMatches(TrimEndMatches(u, "/"), "#"), "/")

InitUrl ==
    /\ pc = "url"
    /\ url \in SeqsUpTo(UrlChars, MaxUrlLen)
    /\ normalized = <<>>
    /\ TreeIdle
    /\ ImportIdle
    /\ config = <<>>
    /\ settingsFile \in { f \in SettingsFiles : ~f.exists }
    /\ ledger = [ readable |-> FALSE, profiles |-> EmptyMap ]
    /\ ledger0 = ledger
    /\ recent_mem = EmptyMap
    /\ lastRecord = <<>>
    /\ pname = <<>>
    /\ parsed = None
    /\ opts = NoOpts
    /\ RunIdle

urlFrame == << config, settingsFile, cli, opts, treeVars, importVars, ledger,
               ledger0, runVars, ledgerVars, parseVars, reads, url >>

Normalize ==
    /\ pc = "url"
    /\ pc' = "normalized"
    /\ normalized' = << normalize_sso_start_url(url) >>
    /\ UNCHANGED urlFrame

(* the function applied to its own result *)
Renormalize ==
    /\ pc = "normalized"
    /\ pc' = "renormalized"
    /\ normalized' = Append(normalized, normalize_sso_start_url(normalized[1]))
    /\ UNCHANGED urlFrame

NextUrl == Normalize \/ Renormalize

SpecUrl == InitUrl /\ [][NextUrl]_vars

EndsClean(s) == s = <<>> \/ s[Len(s)] \notin { "/", "#" }

Prefixes(s) == { SubSeq(s, 1, n) : n \in 0..Len(s) }

(* C21: for every base that does not end in '/' or '#', the start URL
   written as base, base/, base/# or base/#/ is normalized to base. *)
C21_FourFormsMapToBase ==
    pc \in { "normalized", "renormalized" } =>
        \A base \in Prefixes(url) :
            ( /\ EndsClean(base)
              /\ url \in { base, base \o << "/" >>, base \o << "/", "#" >>,
                           base \o << "/", "#", "/" >> } )
            => normalized[1] = base

C21_Witness ==
    /\ pc = "normalized"
    /\ url = << "x", "/", "x", "/", "#" >>
    /\ normalized = << << "x", "/", "x" >> >>

(* C29: normalizing is idempotent on every URL that ends in any sequence of
   '/' and '#': the result normalized again is the same text, and the result
   does not end in '/' or '#'. *)
C29_NormalizeIdempotent ==
    pc = "renormalized" =>
        /\ normalized[2] = normalized[1]
        /\ EndsClean(normalized[1])

-----------------------------------------------------------------------------
(* The recorded name after pruning *)

(* the other entries present after the insertion that are not older than
   the recorded one *)
NotOlder(before, name, ts) == { n \in (DOMAIN before) \ { name } : before[n] >= ts }

(* C22 as stated: after record(name, cap) with cap >= 1 the serialised
   ledger contains name, whatever the ledger held before and whatever the
   clock says. *)
C22_RecordedNameKept ==
    (lastRecord # <<>> /\ lastRecord[2] >= 1) => lastRecord[1] \in DOMAIN recent_mem

(* C22 amended: after record(name, cap) the serialised ledger contains name
   with the new timestamp whenever fewer than cap other entries have a
   timestamp equal to or greater than the new one. *)
C22_RecordedNameKeptWhenRecent ==
    lastRecord # <<>> =>
        LET name == lastRecord[1]
            cap == lastRecord[2]
            ts == lastRecord[3]
            before == lastRecord[5]
        IN Cardinality(NotOlder(before, name, ts)) < cap =>
               /\ name \in DOMAIN recent_mem
               /\ recent_mem[name] = ts

(* cap 2, one other entry as recent as the new one and one older: the new
   name and the tied one stay *)
C22_Witness ==
    /\ lastRecord = << N_adr, 2, 2, TRUE, (N_apw :> 2 @@ N_bdrw :> 1) >>
    /\ recent_mem = (N_adr :> 2 @@ N_apw :> 2)

-----------------------------------------------------------------------------
(* Step-by-step mode with a later slot pre-filled *)

(* some slot is pre-filled while a slot before it is left to a picker *)
LaterPreset ==
    \E i \in 1..3 : \E j \in (i + 1)..3 : preset[i] = None /\ preset[j] # None

(* the profiles that agree with the slots before slot s *)
ConsistentBefore(s) ==
    { k \in 1..Len(profiles) :
        /\ s >= 2 => profiles[k].client = chosen_client[1]
        /\ s >= 3 => profiles[k].account = chosen_account[1] }

SlotValue(p, s) == IF s = 1 THEN p.client ELSE IF s = 2 THEN p.account ELSE p.role

NoPickCancelled == \A i \in 1..Len(picks) : picks[i].choice # None

(* C23: in step-by-step mode with a later slot pre-filled, every picker is
   offered the sorted distinct values of its slot among the profiles that
   agree with the slots before it, whatever the pre-filled later slot
   holds; a run in which every picker returned a choice ends in a resolved
   profile whose client, account and role are the three slots or as
   NoMatchingProfile; and every login call names a profile whose triple is
   the three slots. *)
C23_LaterPresetDoesNotFilter ==
    (mode = "cascading" /\ LaterPreset) =>
        /\ \A i \in 1..Len(PickerCalls) :
             IsSortedSetOf(PickerCalls[i].options,
                 { SlotValue(profiles[k], SlotIndex(PickerCalls[i].at)) :
                     k \in ConsistentBefore(SlotIndex(PickerCalls[i].at)) })
        /\ (NoPickCancelled /\ pc \notin PickStates) =>
             \/ outcome = "NoMatchingProfile" /\ resolved = None
             \/ /\ resolved # None
                /\ SlotsFilled
                /\ resolved[1].client = chosen_client[1]
                /\ resolved[1].account = chosen_account[1]
                /\ resolved[1].role = chosen_role[1]
                /\ outcome # "NoMatchingProfile"
        /\ \A i \in CallsOf("login") :
             /\ resolved # None
             /\ calls[i][2] = resolved[1].name
             /\ SlotsFilled
             /\ resolved[1].client = chosen_client[1]
             /\ resolved[1].account = chosen_account[1]
             /\ resolved[1].role = chosen_role[1]

(* role w pre-filled, a-d-r and a-p-w configured: the account picker still
   offers d, and picking it ends the run as NoMatchingProfile without a
   login *)
C23_Witness ==
    /\ mode = "cascading"
    /\ preset = << None, None, Some(<< "w" >>) >>
    /\ Len(picks) = 2
    /\ picks[2].at = "pick_account"
    /\ picks[2].options = << << "d" >>, << "p" >> >>
    /\ picks[2].choice = Some(<< "d" >>)
    /\ outcome = "NoMatchingProfile"
    /\ CallsOf("login") = {}

-----------------------------------------------------------------------------
(* tui_tree.rs: the tree browser *)

MaxTreeProfiles == 2     \* profiles handed to tui_tree_select
UsizeBits == 16          \* width of usize in the model
MaxWrap == 1             \* steps the cursor is followed below usize::MAX

UsizeMax == 2^UsizeBits - 1

N_ad_ == << "a", "-", "d", "-" >>

(* the profiles the browser is given: two roles of one account, a second
   account, a second client, and a profile whose role is empty *)
TreePool ==
    { MakeProfile(n, SplitParts(n)) : n \in { N_adr, N_adw, N_apw, N_bpr, N_ad_ } }

(* Vec<String>::sort(): duplicates are kept *)
RECURSIVE InsertSorted(_, _)
InsertSorted(sorted, x) ==
    IF sorted = <<>> THEN << x >>
    ELSE IF StrLess(x, sorted[1]) THEN << x >> \o sorted
    ELSE << sorted[1] >> \o InsertSorted(Tail(sorted), x)

RECURSIVE SortStrings(_)
SortStrings(values) ==
    IF values = <<>> THEN <<>>
    ELSE InsertSorted(SortStrings(SubSeq(values, 1, Len(values) - 1)),
                      values[Len(values)])

(* client_map: its keys sorted, the keys of one client's map sorted, and the
   roles pushed for one client and account, in profile order *)
ClientKeys(ps) == BTreeCollect(MapField(ps, "client"))

AccountKeys(ps, client) ==
    BTreeCollect(MapField(
        SelectSeqIdx(ps, { i \in 1..Len(ps) : ps[i].client = client }), "account"))

RolesPushed(ps, client, account) ==
    MapField(SelectSeqIdx(ps, { i \in 1..Len(ps) :
                                  ps[i].client = client /\ ps[i].account = account }),
             "role")

(* a TreeItem without its label, which is the client, account or role
   behind an icon *)
TreeItem(client, account, role, level) ==
    [ client |-> client, account |-> account, role |-> role, level |-> level ]

(* *self.expanded.get(key).unwrap_or(&false) *)
IsExpanded(expanded, k) == IF k \in DOMAIN expanded THEN expanded[k] ELSE FALSE

(* format!("{}-{}", client, account) *)
AccountKey(client, account) == client \o << "-" >> \o account

RoleItems(client, account, roles) ==
    [ i \in 1..Len(roles) |-> TreeItem(client, account, roles[i], 2) ]

RECURSIVE AccountItems(_, _, _, _)
AccountItems(expanded, ps, client, accounts) ==
    IF accounts = <<>> THEN <<>>
    ELSE << TreeItem(client, accounts[1], <<>>, 1) >>
         \o (IF IsExpanded(expanded, AccountKey(client, accounts[1]))
             THEN RoleItems(client, accounts[1],
                            SortStrings(RolesPushed(ps, client, accounts[1])))
             ELSE <<>>)
         \o AccountItems(expanded, ps, client, Tail(accounts))

RECURSIVE ClientItems(_, _, _)
ClientItems(expanded, ps, clients) ==
    IF clients = <<>> THEN <<>>
    ELSE << TreeItem(clients[1], <<>>, <<>>, 0) >>
         \o (IF IsExpanded(expanded, clients[1])
             THEN AccountItems(expanded, ps, clients[1], AccountKeys(ps, clients[1]))
             ELSE <<>>)
         \o ClientItems(expanded, ps, Tail(clients))

(* rebuild_tree over the client_map of the profiles *)
rebuild_tree(expanded, ps) == ClientItems(expanded, ps, ClientKeys(ps))

(* TreeApp::new *)
TreeAppNew(ps) ==
    [ tree_items |-> rebuild_tree(EmptyMap, ps),
      list_state |-> Some(0),
      selected_profile |-> None,
      expanded |-> EmptyMap ]

(* what a method call leaves: the app, or a panic *)
Returns(a) == [ panicked |-> FALSE, app |-> a ]
Panics(a) == [ panicked |-> TRUE, app |-> a ]

(* TreeApp::next; i + 1 and i - 1 on usize panic in a debug build and wrap
   in a release build, % 0 and an index past the end panic in both *)
next(a) ==
    IF a.list_state = None
    THEN { Returns([ a EXCEPT !.list_state = Some(0) ]) }
    ELSE IF Len(a.tree_items) = 0 THEN { Panics(a) }
    ELSE IF a.list_state[1] = UsizeMax
    THEN { Panics(a), Returns([ a EXCEPT !.list_state = Some(0) ]) }
    ELSE { Returns([ a EXCEPT !.list_state =
                         Some((a.list_state[1] + 1) % Len(a.tree_items)) ]) }

(* TreeApp::previous *)
previous(a) ==
    IF a.list_state = None
    THEN { Returns([ a EXCEPT !.list_state = Some(0) ]) }
    ELSE IF a.list_state[1] = 0
    THEN IF Len(a.tree_items) = 0
         THEN { Panics(a), Returns([ a EXCEPT !.list_state = Some(UsizeMax) ]) }
         ELSE { Returns([ a EXCEPT !.list_state = Some(Len(a.tree_items) - 1) ]) }
    ELSE { Returns([ a EXCEPT !.list_state = Some(a.list_state[1] - 1) ]) }

(* mutant: toggling a node forgets the flags of the other nodes *)
Toggle_ForgetsOthers(expanded, k) == (k :> ~IsExpanded(expanded, k))

(* self.expanded.insert(key, !expanded) *)
Toggle(expanded, k) ==
    [ n \in (DOMAIN expanded) \cup { k } |->
        IF n = k THEN ~IsExpanded(expanded, k) ELSE expanded[n] ]

(* TreeApp::select, with rebuild_from_profiles *)
select(a, ps) ==
    IF a.list_state = None THEN { Returns(a) }
    ELSE IF a.list_state[1] >= Len(a.tree_items) THEN { Panics(a) }
    ELSE LET item == a.tree_items[a.list_state[1] + 1]
         IN IF item.level = 2 /\ item.role # <<>>
            THEN { Returns([ a EXCEPT !.selected_profile =
                                 Some(<< item.client, item.account, item.role >>) ]) }
            ELSE IF item.level = 0
            THEN LET e == Toggle(a.expanded, item.client)
                 IN { Returns([ a EXCEPT !.expanded = e,
                                         !.tree_items = rebuild_tree(e, ps) ]) }
            ELSE IF item.level = 1
            THEN LET e == Toggle(a.expanded, AccountKey(item.client, item.account))
                 IN { Returns([ a EXCEPT !.expanded = e,
                                         !.tree_items = rebuild_tree(e, ps) ]) }
            ELSE { Returns(a) }

(* ui: render_stateful_widget hands the List widget a mutable list_state.
   With an empty list area the widget leaves it alone; otherwise it clears
   the selection of an empty list and moves a selection past the end to the
   last item *)
Draw(a, areaEmpty) ==
    IF areaEmpty \/ a.list_state = None THEN a
    ELSE IF a.tree_items = <<>> THEN [ a EXCEPT !.list_state = None ]
    ELSE IF a.list_state[1] >= Len(a.tree_items)
    THEN [ a EXCEPT !.list_state = Some(Len(a.tree_items) - 1) ]
    ELSE a

InitTree ==
    /\ pc = "tree"
    /\ profiles \in SeqsUpTo(TreePool, MaxTreeProfiles)
    /\ app = <<>>
    /\ key = ""
    /\ UrlIdle
    /\ ImportIdle
    /\ chosen_client = None
    /\ chosen_account = None
    /\ chosen_role = None
    /\ set_default = FALSE
    /\ max_recent = 0
    /\ mode = ""
    /\ offered = <<>>
    /\ resolved = None
    /\ outcome = ""
    /\ exitCode = -1
    /\ printed = <<>>
    /\ preset = << None, None, None >>
    /\ picks = <<>>
    /\ calls = <<>>
    /\ cli = None
    /\ reads = <<>>
    /\ config = <<>>
    /\ settingsFile \in { f \in SettingsFiles : ~f.exists }
    /\ ledger = [ readable |-> FALSE, profiles |-> EmptyMap ]
    /\ ledger0 = ledger
    /\ recent_mem = EmptyMap
    /\ lastRecord = <<>>
    /\ pname = <<>>
    /\ parsed = None
    /\ opts = NoOpts

treeFrame == << config, settingsFile, cli, opts, urlVars, importVars, ledger,
                ledger0, runVars, ledgerVars, parseVars, reads >>

(* tui_tree_select up to the first draw *)
TreeStart ==
    /\ pc = "tree"
    /\ pc' = "tree_loop"
    /\ app' = TreeAppNew(profiles)
    /\ UNCHANGED << key, treeFrame >>

(* the arm of `match key.code` for key k *)
KeyArm(k, a, ps) ==
    IF k = "Down" THEN next(a)
    ELSE IF k = "Up" THEN previous(a)
    ELSE IF k = "Enter" THEN select(a, ps)
    ELSE { Returns(a) }

(* whether the arm leaves the loop *)
Breaks(k, a) ==
    \/ k \in { "q", "Esc" }
    \/ k = "Enter" /\ a.selected_profile # None

(* one turn of the loop: the draw, the key read and its arm *)
KeyEvent(k) ==
    /\ pc = "tree_loop"
    /\ \E areaEmpty \in BOOLEAN :
         \E o \in KeyArm(k, Draw(app, areaEmpty), profiles) :
             /\ app' = o.app
             /\ pc' = IF o.panicked THEN "panic"
                      ELSE IF Breaks(k, o.app) THEN "returned" ELSE "tree_loop"
    /\ key' = k
    /\ UNCHANGED treeFrame

(* the cursor has wrapped below zero and is followed no further *)
WrappedOut ==
    /\ app.list_state # None
    /\ app.list_state[1] >= Len(app.tree_items)
    /\ app.list_state[1] > 0
    /\ app.list_state[1] <= UsizeMax - MaxWrap

Down == KeyEvent("Down")

Up ==
    /\ pc = "tree_loop"
    /\ ~WrappedOut
    /\ KeyEvent("Up")

Enter == KeyEvent("Enter")

Quit == \E k \in { "q", "Esc" } : KeyEvent(k)

(* any other key, or an event that is not a key *)
OtherEvent == KeyEvent("other")

(* terminal.draw or event::read fails: tui_tree_select returns Err *)
TreeIoError ==
    /\ pc = "tree_loop"
    /\ pc' = "error"
    /\ \E areaEmpty \in BOOLEAN : app' \in { app, Draw(app, areaEmpty) }
    /\ UNCHANGED << key, treeFrame >>

NextTree == TreeStart \/ Down \/ Up \/ Enter \/ Quit \/ OtherEvent \/ TreeIoError

SpecTree == InitTree /\ [][NextTree]_vars

(* C24: once the browser runs, no key event has panicked; over a non-empty
   item list the cursor is an index of a visible item, and over an empty
   one it is unset or 0 (never wrapped below zero). *)
C24_CursorAlwaysValid ==
    pc \in { "tree_loop", "panic", "returned", "error" } =>
        /\ pc # "panic"
        /\ app.tree_items # <<>> =>
             /\ app.list_state # None
             /\ app.list_state[1] < Len(app.tree_items)
        /\ app.tree_items = <<>> => app.list_state \in { None, Some(0) }

(* the item under the cursor, when the cursor is on one *)
OnItem(a) == a.list_state # None /\ a.list_state[1] < Len(a.tree_items)
CursorItem(a) == a.tree_items[a.list_state[1] + 1]
NodeKey(item) ==
    IF item.level = 0 THEN item.client ELSE AccountKey(item.client, item.account)

(* C25: the browser returns only on Esc or 'q', with no selection, or on
   Enter over a role item, with that item's client, account and role, which
   are those of a profile it was given; Esc and 'q' always return without
   a selection; Enter over a client or account item keeps the browser
   running with no selection, flips the expansion flag of that node and
   leaves the flag of every other node as it was. *)
C25_EnterSelectsOrToggles ==
    [][ (pc = "tree_loop" /\ pc' # "error") =>
          /\ pc' = "returned" =>
               \/ key' \in { "q", "Esc" } /\ app'.selected_profile = None
               \/ /\ key' = "Enter"
                  /\ OnItem(app)
                  /\ CursorItem(app).level = 2
                  /\ app'.selected_profile =
                         Some(<< CursorItem(app).client, CursorItem(app).account,
                                 CursorItem(app).role >>)
                  /\ \E k \in 1..Len(profiles) :
                         << profiles[k].client, profiles[k].account, profiles[k].role >>
                             = app'.selected_profile[1]
          /\ key' \in { "q", "Esc" } =>
               pc' = "returned" /\ app'.selected_profile = None
          /\ (key' = "Enter" /\ OnItem(app) /\ CursorItem(app).level \in { 0, 1 }) =>
               LET k == NodeKey(CursorItem(app))
               IN /\ pc' = "tree_loop"
                  /\ app'.selected_profile = None
                  /\ app'.list_state = app.list_state
                  /\ DOMAIN app'.expanded = (DOMAIN app.expanded) \cup { k }
                  /\ app'.expanded[k] = ~IsExpanded(app.expanded, k)
                  /\ \A n \in (DOMAIN app.expanded) \ { k } :
                         app'.expanded[n] = app.expanded[n]
      ]_vars

(* a and then a-d expanded, Enter on role r *)
C25_Witness ==
    /\ pc = "returned"
    /\ key = "Enter"
    /\ app.selected_profile = Some(<< << "a" >>, << "d" >>, << "r" >> >>)
    /\ app.expanded = (<< "a" >> :> TRUE @@ << "a", "-", "d" >> :> TRUE)

-----------------------------------------------------------------------------
(* aws.rs: set_default_profile *)

(* ini.section(Some(&format!("profile {}", name))): the first section of
   that name *)
FindSection(ini, kind, id) ==
    LET hits == { i \in 1..Len(ini) : ini[i].kind = kind /\ ini[i].id = id }
    IN IF hits = {} THEN None
       ELSE Some(ini[CHOOSE i \in hits : \A j \in hits : i <= j])

(* Properties::insert for every pair of `data`: a key already there takes
   the new value, the other keys stay *)
SetAll(props, data) ==
    [ k \in (DOMAIN props) \cup (DOMAIN data) |->
        IF k \in DOMAIN data THEN data[k] ELSE props[k] ]

(* mutant: the written file holds the default section only *)
SetSection_DropsOthers(ini, kind, id, data) ==
    << [ kind |-> kind, id |-> id, props |-> data ] >>

(* ini.with_section(Some(name)) followed by set(key, value) for every pair:
   the section is created at the end when the file has none *)
SetSection(ini, kind, id, data) ==
    IF FindSection(ini, kind, id) = None
    THEN Append(ini, [ kind |-> kind, id |-> id, props |-> data ])
    ELSE LET i == CHOOSE i \in 1..Len(ini) :
                      /\ ini[i].kind = kind /\ ini[i].id = id
                      /\ \A j \in 1..(i - 1) : ~(ini[j].kind = kind /\ ini[j].id = id)
         IN [ ini EXCEPT ![i].props = SetAll(ini[i].props, data) ]

Ok == [ ok |-> TRUE, err |-> "" ]
Err(msg) == [ ok |-> FALSE, err |-> msg ]

(* set_default_profile(profile_name, config_path) on the file `ini`; the
   two loads and the write may fail.  `out` is what write_to_file wrote,
   None when the function returns before it or the write fails *)
set_default_profile(profile_name, ini, loadOk1, loadOk2, writeOk) ==
    LET loaded == load_profiles(ini, loadOk1)
    IN IF ~\E i \in 1..Len(loaded) : loaded[i].name = profile_name
       THEN [ result |-> Err("Profile not found"), out |-> None ]
       ELSE IF ~loadOk2
       THEN [ result |-> Err("Failed to load AWS config"), out |-> None ]
       ELSE IF FindSection(ini, "profile", profile_name) = None
       THEN [ result |-> Err("Profile not found in config"), out |-> None ]
       ELSE IF ~writeOk
       THEN [ result |-> Err("Failed to write AWS config"), out |-> None ]
       ELSE [ result |-> Ok,
              out |-> Some(SetSection(ini, "default", <<>>,
                          FindSection(ini, "profile", profile_name)[1].props)) ]

(* a second well-formed profile with its own values and one more key, and a
   default section that already has one of the keys and one of its own *)
OtherProps ==
    [ sso_session |-> << "s" >>, sso_account_id |-> << "2" >>,
      sso_role_name |-> << "B" >>, region |-> << "e" >> ]

DefaultPool ==
    { [ kind |-> "profile", id |-> N_adr, props |-> GoodProps ],
      [ kind |-> "profile", id |-> N_adr,
        props |-> [ sso_session |-> << "s" >>, sso_role_name |-> << "A" >> ] ],
      [ kind |-> "profile", id |-> N_apw, props |-> OtherProps ],
      [ kind |-> "profile", id |-> N_ad, props |-> GoodProps ],
      SessionWithUrl(<< "s" >>),
      SessionWithoutUrl(<< "s" >>),
      [ kind |-> "default", id |-> <<>>,
        props |-> [ sso_role_name |-> << "Z" >>, output |-> << "j" >> ] ] }

DefaultConfigs ==
    { c \in SeqsUpTo(DefaultPool, MaxSections) :
        \A i, j \in 1..Len(c) : SectionName(c[i]) = SectionName(c[j]) => i = j }

InitDefault ==
    /\ pc = "set_default_profile"
    /\ config \in DefaultConfigs
    /\ pname \in { N_adr, N_apw, N_ad }
    /\ written = None
    /\ fcall = <<>>
    /\ TreeIdle
    /\ UrlIdle
    /\ settingsFile \in { f \in SettingsFiles : ~f.exists }
    /\ ledger = [ readable |-> FALSE, profiles |-> EmptyMap ]
    /\ ledger0 = ledger
    /\ recent_mem = EmptyMap
    /\ lastRecord = <<>>
    /\ parsed = None
    /\ opts = NoOpts
    /\ RunIdle

fileFrame == << settingsFile, cli, opts, treeVars, urlVars, ledger, ledger0,
                selVars, offered, resolved, exitCode, picks, calls, ledgerVars,
                parseVars, reads >>

SetDefaultProfile ==
    /\ pc = "set_default_profile"
    /\ \E loadOk1, loadOk2, writeOk \in BOOLEAN :
         LET r == set_default_profile(pname, config, loadOk1, loadOk2, writeOk)
         IN /\ written' = r.out
            /\ config' = IF r.out = None THEN config ELSE r.out[1]
            /\ outcome' = IF r.result.ok THEN "Ok" ELSE r.result.err
    /\ fcall' = [ op |-> "set_default_profile", profile_name |-> pname,
                  before |-> config ]
    /\ pc' = "set_default_done"
    /\ UNCHANGED fileFrame

NextDefault == SetDefaultProfile

SpecDefault == InitDefault /\ [][NextDefault]_vars

(* C26: when set_default_profile returns an error nothing was written and
   the file is as it was; it returns Ok only for a profile that is
   well-formed in the file, and then the file written has a default
   section that holds every key of the profile's section with the value it
   has there, while every other section, the profile's own included, is
   where it was with the content it had, and no section other than default
   was added. *)
C26_DefaultCopiesProfile ==
    pc = "set_default_done" =>
        LET before == fcall.before
            src == FindSection(before, "profile", fcall.profile_name)
            dflt == FindSection(config, "default", <<>>)
        IN /\ outcome # "Ok" => (written = None /\ config = before)
           /\ outcome = "Ok" =>
                /\ written = Some(config)
                /\ src # None
                /\ WellFormed(src[1], before)
                /\ dflt # None
                /\ \A k \in DOMAIN src[1].props :
                       k \in DOMAIN dflt[1].props /\ dflt[1].props[k] = src[1].props[k]
                /\ \A i \in 1..Len(before) :
                       /\ config[i].kind = before[i].kind
                       /\ config[i].id = before[i].id
                       /\ before[i].kind # "default" => config[i] = before[i]
                /\ \A i \in (Len(before) + 1)..Len(config) : config[i].kind = "default"
                /\ Len(config) >= Len(before)

(* a-p-w made the default of a file that has a default section: the
   section takes the four keys of a-p-w and keeps its own output key *)
C26_Witness ==
    /\ pc = "set_default_done"
    /\ outcome = "Ok"
    /\ fcall.profile_name = N_apw
    /\ FindSection(fcall.before, "default", <<>>) # None
    /\ FindSection(config, "default", <<>>)[1].props =
           [ sso_session |-> << "s" >>, sso_account_id |-> << "2" >>,
             sso_role_name |-> << "B" >>, region |-> << "e" >>,
             output |-> << "j" >> ]

-----------------------------------------------------------------------------
(* import.rs: import_profiles *)

MaxAccounts == 2     \* accounts list-accounts returns

(* str::replace(from, to) for a one-character pattern *)
RECURSIVE Replace(_, _, _)
Replace(s, from, to) ==
    IF s = <<>> THEN <<>>
    ELSE (IF s[1] = from THEN to ELSE << s[1] >>) \o Replace(Tail(s), from, to)

(* account.account_name.replace(' ', "").replace('-', "_") *)
SanitizeAccount(account_name) == Replace(Replace(account_name, " ", <<>>), "-", << "_" >>)

(* role.role_name.replace('-', "_") *)
SanitizeRole(role_name) == Replace(role_name, "-", << "_" >>)

(* format!("{}-{}-{}", sso_session, .., ..) *)
ImportName(sso_session, account_name, role_name) ==
    sso_session \o << "-" >> \o SanitizeAccount(account_name)
    \o << "-" >> \o SanitizeRole(role_name)

(* the section one push_str adds to config_content *)
ImportSection(sso_session, role, sso_region, profile_name) ==
    [ kind |-> "profile", id |-> profile_name,
      props |-> [ sso_session |-> sso_session,
                  sso_account_id |-> role.account_id,
                  sso_role_name |-> role.role_name,
                  region |-> sso_region,
                  output |-> << "j", "s", "o", "n" >> ] ]

(* the inner loop: the roles of one account against the file as loaded *)
RECURSIVE ImportRoles(_, _, _, _, _)
ImportRoles(sso_session, account, roles, sso_region, ini) ==
    IF roles = <<>> THEN <<>>
    ELSE LET profile_name ==
                 ImportName(sso_session, account.account_name, roles[1].role_name)
         IN (IF FindSection(ini, "profile", profile_name) # None THEN <<>>
             ELSE << ImportSection(sso_session, roles[1], sso_region, profile_name) >>)
            \o ImportRoles(sso_session, account, Tail(roles), sso_region, ini)

(* the outer loop.  An account carries what list-account-roles did for it:
   "spawn_error" and "parse_error" end the function with Err, "failed" skips
   the account, "ok" yields its roles *)
RECURSIVE ImportAccounts(_, _, _, _)
ImportAccounts(sso_session, accounts, sso_region, ini) ==
    IF accounts = <<>> THEN [ err |-> "", content |-> <<>> ]
    ELSE LET account == accounts[1]
         IN IF account.roles_status = "spawn_error"
            THEN [ err |-> "Failed to list roles", content |-> <<>> ]
            ELSE IF account.roles_status = "parse_error"
            THEN [ err |-> "Failed to parse roles", content |-> <<>> ]
            ELSE LET rest == ImportAccounts(sso_session, Tail(accounts), sso_region, ini)
                     mine == IF account.roles_status = "failed" THEN <<>>
                             ELSE ImportRoles(sso_session, account, account.role_list,
                                              sso_region, ini)
                 IN [ err |-> rest.err,
                      content |-> IF rest.err # "" THEN <<>> ELSE mine \o rest.content ]

(* the steps before the loop that can end the function, in order *)
ImportFailPoints ==
    << "Failed to execute aws", "AWS SSO login failed",
       "Failed to read cache directory", "No token file found",
       "Failed to read token file", "Failed to parse token",
       "Failed to load config", "SSO region not found in config",
       "Failed to list accounts", "Failed to parse accounts" >>

(* import_profiles(sso_session, config_path) on the file `ini`.  failAt names
   the step that fails ("" for none, "Failed to write config" for the
   write); readBackOk: fs::read_to_string at the write succeeds.  `out` is
   what fs::write wrote, None when the function returns before it or the
   write fails; `appended` is config_content as sections *)
import_profiles(sso_session, ini, accounts, failAt, readBackOk) ==
    LET session == FindSection(ini, "sso-session", sso_session)
        none == [ result |-> Ok, out |-> None, appended |-> <<>> ]
    IN IF failAt \in Range(SubSeq(ImportFailPoints, 1, 7))
       THEN [ none EXCEPT !.result = Err(failAt) ]
       ELSE IF session = None \/ "sso_region" \notin DOMAIN session[1].props
       THEN [ none EXCEPT !.result = Err("SSO region not found in config") ]
       ELSE IF failAt \in Range(ImportFailPoints)
       THEN [ none EXCEPT !.result = Err(failAt) ]
       ELSE LET loop == ImportAccounts(sso_session, accounts,
                                       session[1].props["sso_region"], ini)
            IN IF loop.err # "" THEN [ none EXCEPT !.result = Err(loop.err) ]
               ELSE IF failAt = "Failed to write config"
               THEN [ result |-> Err(failAt), out |-> None, appended |-> loop.content ]
               ELSE [ result |-> Ok,
                      out |-> Some((IF readBackOk THEN ini ELSE <<>>) \o loop.content),
                      appended |-> loop.content ]

(* session identifiers, account names and role names of the import *)
ImportSessions == { << "s" >>, << "m", "-", "s" >> }

ImportRole(account_id, role_name) == [ role_name |-> role_name, account_id |-> account_id ]

ImportAccountPool ==
    { [ account_id |-> << "1" >>, account_name |-> n, roles_status |-> "ok",
        role_list |-> [ i \in 1..Len(rs) |-> ImportRole(<< "1" >>, rs[i]) ] ] :
        n \in { << "d", "x" >>, << "d", " ", "x" >>, << "d", "-", "x" >> },
        rs \in { << << "A" >> >>, << << "r", "-", "o" >>, << "A" >> >> } }
    \cup { [ account_id |-> << "2" >>, account_name |-> << "p" >>, roles_status |-> st,
             role_list |-> <<>> ] : st \in { "spawn_error", "failed", "parse_error" } }

SessionFull(id) ==
    [ kind |-> "sso-session", id |-> id,
      props |-> [ sso_start_url |-> Url, sso_region |-> << "e" >> ] ]

ImportConfigPool ==
    { SessionFull(<< "s" >>), SessionFull(<< "m", "-", "s" >>),
      [ kind |-> "sso-session", id |-> << "s" >>, props |-> [ sso_start_url |-> Url ] ],
      [ kind |-> "profile", id |-> << "s", "-", "d", "x", "-", "A" >>,
        props |-> GoodProps ] }

ImportConfigs ==
    { c \in SeqsUpTo(ImportConfigPool, MaxLines) :
        \A i, j \in 1..Len(c) : SectionName(c[i]) = SectionName(c[j]) => i = j }

InitImport ==
    /\ pc = "import_profiles"
    /\ config \in ImportConfigs
    /\ written = None
    /\ fcall = <<>>
    /\ TreeIdle
    /\ UrlIdle
    /\ settingsFile \in { f \in SettingsFiles : ~f.exists }
    /\ ledger = [ readable |-> FALSE, profiles |-> EmptyMap ]
    /\ ledger0 = ledger
    /\ recent_mem = EmptyMap
    /\ lastRecord = <<>>
    /\ pname = <<>>
    /\ parsed = None
    /\ opts = NoOpts
    /\ RunIdle

ImportProfiles ==
    /\ pc = "import_profiles"
    /\ \E sso_session \in ImportSessions,
          accounts \in SeqsUpTo(ImportAccountPool, MaxAccounts),
          failAt \in Range(ImportFailPoints) \cup { "", "Failed to write config" },
          readBackOk \in BOOLEAN :
         LET r == import_profiles(sso_session, config, accounts, failAt, readBackOk)
         IN /\ written' = r.out
            /\ config' = IF r.out = None THEN config ELSE r.out[1]
            /\ outcome' = IF r.result.ok THEN "Ok" ELSE r.result.err
            /\ fcall' = [ op |-> "import_profiles", sso_session |-> sso_session,
                          accounts |-> accounts, before |-> config,
                          appended |-> r.appended ]
    /\ pc' = "imported"
    /\ UNCHANGED fileFrame

(* the next run of the navigator loads the file *)
LoadImported ==
    /\ pc = "imported"
    /\ outcome = "Ok"
    /\ pc' = "import_loaded"
    /\ profiles' = load_profiles(config, TRUE)
    /\ UNCHANGED << inputVars, ledger, ledger0, chosen_client, chosen_account,
                    chosen_role, set_default, max_recent, mode, preset, printed,
                    offered, resolved, outcome, exitCode, picks, calls,
                    ledgerVars, parseVars, reads >>

NextImport == ImportProfiles \/ LoadImported

SpecImport == InitImport /\ [][NextImport]_vars

(* C27: every profile an import appended, loaded back, has the session
   identifier as its client, the sanitized account name as its account and
   the sanitized role name as its role. *)
C27_ImportedNameParsesBack ==
    pc = "import_loaded" =>
        \A i \in 1..Len(fcall.accounts) :
            \A j \in 1..Len(fcall.accounts[i].role_list) :
                LET account_name == fcall.accounts[i].account_name
                    role_name == fcall.accounts[i].role_list[j].role_name
                    name == ImportName(fcall.sso_session, account_name, role_name)
                IN \A k \in 1..Len(profiles) :
                       (profiles[k].name = name
                        /\ \E a \in 1..Len(fcall.appended) : fcall.appended[a].id = name)
                       => /\ profiles[k].client = fcall.sso_session
                          /\ profiles[k].account = SanitizeAccount(account_name)
                          /\ profiles[k].role = SanitizeRole(role_name)

(* C28: an import that returns an error leaves the file as it was; one that
   returns Ok leaves the previous sections in front of the appended ones,
   appends no section named like a profile section the file had, and
   appends no profile name twice. *)
C28_ImportOnlyAppends ==
    pc \in { "imported", "import_loaded" } =>
        LET before == fcall.before
            added == fcall.appended
        IN /\ outcome # "Ok" => (written = None /\ config = before)
           /\ outcome = "Ok" =>
                /\ written = Some(config)
                /\ config = before \o added
                /\ \A a \in 1..Len(added) :
                       FindSection(before, "profile", added[a].id) = None
                /\ \A a, b \in 1..Len(added) : added[a].id = added[b].id => a = b

-----------------------------------------------------------------------------
(* The name of a constructed profile *)

NameOfTriple(p) == p.client \o << "-" >> \o p.account \o << "-" >> \o p.role

(* C30: every profile either loader constructs has the name client "-"
   account "-" role; hence two profiles of a loaded sequence with the same
   client, account and role have the same name, and a resolved profile has
   the name of the three slots whichever record the lookup found. *)
C30_NameIsJoinedTriple ==
    /\ pc = "parsed" =>
         \A k \in 1..2 : parsed[k] # None => parsed[k][1].name = NameOfTriple(parsed[k][1])
    /\ \A i \in 1..Len(profiles) : profiles[i].name = NameOfTriple(profiles[i])
    /\ \A i, j \in 1..Len(profiles) :
         ( /\ profiles[i].client = profiles[j].client
           /\ profiles[i].account = profiles[j].account
           /\ profiles[i].role = profiles[j].role )
         => profiles[i].name = profiles[j].name
    /\ (resolved # None /\ SlotsFilled) => resolved[1].name = TripleName

(* an empty account and a role that ends in the separator *)
C30_Witness ==
    /\ pc = "parsed"
    /\ pname = << "b", "-", "-", "a", "-" >>
    /\ parsed[1] # None
    /\ parsed[2] # None
    /\ parsed[1][1].account = <<>>
    /\ parsed[1][1].role = << "a", "-" >>
    /\ NameOfTriple(parsed[2][1]) = pname

====
